---- MODULE Spec2Model ----
(***************************************************************************)
(* NodeGuardian: rule evaluation and remediation engine.                   *)
(*                                                                         *)
(* Two implementations are modelled side by side, as in the repository:    *)
(*   - the library   (python-version/src/nodeguardian: RuleEngine,         *)
(*                    KubernetesClient, MetricsCollector)                  *)
(*   - the scripts   (scripts/nodeguardian_controller.py,                  *)
(*                    scripts/recovery_manager.py)                         *)
(* Both keep their state in the same two directories                       *)
(* (/tmp/nodeguardian/rules, /tmp/nodeguardian/cooldown).                  *)
(*                                                                         *)
(* Numbers: metric values and thresholds are integers in units of 0.0005   *)
(* (Pct(85) is 85.0), so that the tolerance 0.001 of EqualTo / NotEqualTo  *)
(* is 2 units and values closer than the tolerance exist.  Time is in      *)
(* whole seconds.  Names (rules, nodes, file names) are sequences of       *)
(* tokens, "_" being a token, so that f"{rule}_{node}" is concatenation.   *)
(***************************************************************************)
EXTENDS Integers, Sequences, FiniteSets, TLC

VARIABLES
    now,            \* time.time(), whole seconds
    rules_dir,      \* /tmp/nodeguardian/rules: rule name -> mirrored rule object
    cooldown_dir,   \* /tmp/nodeguardian/cooldown: file name -> timestamp written
    nodes,          \* platform node objects: node name -> [labels, taints, annotations]
    status,         \* platform NodeGuardianRule objects: rule name -> status record
    metrics,        \* what the metric sources answer for each node
    tickLog,        \* history: rule name -> the batch the last tick executed for it
    fireTimes,      \* history: <<rule, node>> -> time of the last fire since (re)registration,
                    \*   <<rule, node, "recovery">> -> time of the last recovery
    lastEvent,      \* history: rule name -> the most recent watch event handled
    recoveryLog,    \* history: <<rule, node>> -> what the last recovery tick did for the pair
    call,           \* the pure-function harness: the call being made
    ret             \* the pure-function harness: its result(s)

vars == <<now, rules_dir, cooldown_dir, nodes, status, metrics, tickLog, fireTimes,
          lastEvent, recoveryLog, call, ret>>

-----------------------------------------------------------------------------
(* Bounds of the model *)

MaxTime == 1        \* the clock runs from 0 to MaxTime
MaxReads == 2       \* the reads of a file while one write of it is in progress

-----------------------------------------------------------------------------
(* Basic values *)

None == 0 - 1                       \* Python's None where a number is expected
Fail == 0 - 1                       \* a source that raised / answered non-2xx / answered nothing
Pct(x) == x * 2000                  \* x.0 in units of 0.0005
Milli(x) == x * 2                   \* x * 0.001 in units of 0.0005
Abs(x) == IF x < 0 THEN -x ELSE x
Range(s) == {s[i] : i \in DOMAIN s}
SeqOfSet(S) == CHOOSE s \in [1..Cardinality(S) -> S] : Range(s) = S
EmptyMap == [x \in {} |-> None]     \* {} (an empty dict / an empty directory)
Put(f, k, v) == [x \in DOMAIN f \cup {k} |-> IF x = k THEN v ELSE f[x]]
Drop(f, K) == [x \in DOMAIN f \ K |-> f[x]]
IsPrefix(p, s) == Len(p) <= Len(s) /\ SubSeq(s, 1, Len(p)) = p

W1 == <<"w1">>
W2 == <<"w2">>
NodeNames == {W1, W2}

MetricKeys == {"cpuUtilizationPercent", "memoryUtilizationPercent",
               "diskUtilizationPercent", "cpuLoadRatio"}
Operators == {"GreaterThan", "GreaterThanOrEqual", "LessThan", "LessThanOrEqual",
              "EqualTo", "NotEqualTo"}
ScriptOperators == {">", ">=", "<", "<=", "==", "!="}

(* What the sources answer for one node: the time-series query of each metric
   (a value or Fail), the node-usage API (cpu and memory percentage, or Fail),
   the DiskPressure condition, and `kubectl top node` (millicores, or Fail). *)
MetricEnv(cpu, mem, disk, load, msCpu, msMem, pressure, top) ==
    [prom |-> [cpuUtilizationPercent |-> cpu, memoryUtilizationPercent |-> mem,
               diskUtilizationPercent |-> disk, cpuLoadRatio |-> load],
     msCpu |-> msCpu, msMem |-> msMem, diskPressure |-> pressure, topCpu |-> top]

EnvHot  == MetricEnv(Pct(85), Pct(50), Pct(40), Pct(1), Fail, Fail, FALSE, 1700)
EnvCool == MetricEnv(Pct(30), Pct(50), Pct(40), Pct(1), Fail, Fail, FALSE, 600)
EnvDown == MetricEnv(Fail, Fail, Fail, Fail, Fail, Fail, FALSE, Fail)

-----------------------------------------------------------------------------
(* Metrics resolver *)

\* MetricsCollector._get_cpu_utilization_from_metrics_server: usage / capacity * 100,
\* 0.0 when the request fails
MetricsCollector_get_cpu_utilization_from_metrics_server(e) ==
    IF e.msCpu # Fail THEN e.msCpu ELSE 0

MetricsCollector_get_memory_utilization_from_metrics_server(e) ==
    IF e.msMem # Fail THEN e.msMem ELSE 0

MetricsCollector_get_cpu_utilization(e) ==
    IF e.prom["cpuUtilizationPercent"] # Fail
    THEN e.prom["cpuUtilizationPercent"]
    ELSE MetricsCollector_get_cpu_utilization_from_metrics_server(e)

MetricsCollector_get_memory_utilization(e) ==
    IF e.prom["memoryUtilizationPercent"] # Fail
    THEN e.prom["memoryUtilizationPercent"]
    ELSE MetricsCollector_get_memory_utilization_from_metrics_server(e)

MetricsCollector_get_disk_utilization(e) ==
    IF e.prom["diskUtilizationPercent"] # Fail
    THEN e.prom["diskUtilizationPercent"]
    ELSE IF e.diskPressure THEN Pct(90) ELSE 0

MetricsCollector_get_cpu_load_ratio(e) ==
    IF e.prom["cpuLoadRatio"] # Fail
    THEN e.prom["cpuLoadRatio"]
    ELSE MetricsCollector_get_cpu_utilization(e) \div 100

\* MetricsCollector.get_node_metrics: always a float, 0.0 for an unknown key
MetricsCollector_get_node_metrics(e, metric_type) ==
    CASE metric_type = "cpuUtilizationPercent" -> MetricsCollector_get_cpu_utilization(e)
      [] metric_type = "memoryUtilizationPercent" -> MetricsCollector_get_memory_utilization(e)
      [] metric_type = "diskUtilizationPercent" -> MetricsCollector_get_disk_utilization(e)
      [] metric_type = "cpuLoadRatio" -> MetricsCollector_get_cpu_load_ratio(e)
      [] OTHER -> 0

\* NodeGuardianController.get_node_cpu_utilization: `kubectl top node`, millicores
\* over an assumed 2 cores: (m / 2000) * 100
Controller_get_node_cpu_utilization(e) ==
    IF e.topCpu = Fail THEN None ELSE e.topCpu * 100

\* NodeGuardianController.get_metric_value: None for an unknown key or a failure;
\* memory, disk and load are the script's fixed figures
Controller_get_metric_value(e, metric) ==
    CASE metric = "cpuUtilizationPercent" -> Controller_get_node_cpu_utilization(e)
      [] metric = "memoryUtilizationPercent" -> IF e.topCpu = Fail THEN None ELSE Pct(75)
      [] metric = "diskUtilizationPercent" -> Pct(60)
      [] metric = "cpuLoadRatio" -> 3000
      [] OTHER -> None

\* Whether any tier of the library's resolver has a value for the metric
Resolvable(e, metric) ==
    /\ metric \in MetricKeys
    /\ \/ e.prom[metric] # Fail
       \/ metric = "cpuUtilizationPercent" /\ e.msCpu # Fail
       \/ metric = "memoryUtilizationPercent" /\ e.msMem # Fail
       \/ metric = "diskUtilizationPercent" /\ e.diskPressure
       \/ metric = "cpuLoadRatio" /\ e.msCpu # Fail

-----------------------------------------------------------------------------
(* Condition evaluator *)

Cond(m, op, v) == [metric |-> m, operator |-> op, value |-> v]

\* RuleEngine.evaluate_condition
RuleEngine_evaluate_condition(condition, e) ==
    LET metric_value == MetricsCollector_get_node_metrics(e, condition.metric) IN
    CASE condition.operator = "GreaterThan" -> metric_value > condition.value
      [] condition.operator = "LessThan" -> metric_value < condition.value
      [] condition.operator = "EqualTo" -> Abs(metric_value - condition.value) < Milli(1)
      [] condition.operator = "NotEqualTo" -> Abs(metric_value - condition.value) >= Milli(1)
      [] condition.operator = "GreaterThanOrEqual" -> metric_value >= condition.value
      [] condition.operator = "LessThanOrEqual" -> metric_value <= condition.value
      [] OTHER -> FALSE

\* NodeGuardianController.evaluate_condition (RecoveryManager.evaluate_condition is the same text)
Controller_evaluate_condition(metric_value, operator, threshold) ==
    CASE operator = ">" -> metric_value > threshold
      [] operator = ">=" -> metric_value >= threshold
      [] operator = "<" -> metric_value < threshold
      [] operator = "<=" -> metric_value <= threshold
      [] operator = "==" -> Abs(metric_value - threshold) < Milli(1)
      [] operator = "!=" -> Abs(metric_value - threshold) >= Milli(1)
      [] OTHER -> FALSE

\* the number of conditions the library counts as satisfied
RuleEngine_satisfied_conditions(conditions, e) ==
    Cardinality({i \in DOMAIN conditions : RuleEngine_evaluate_condition(conditions[i], e)})

\* RuleEngine.evaluate_rule_conditions
RuleEngine_evaluate_rule_conditions(conditions, condition_logic, e) ==
    IF conditions = <<>> THEN FALSE
    ELSE IF condition_logic = "AND"
         THEN RuleEngine_satisfied_conditions(conditions, e) = Len(conditions)
         ELSE RuleEngine_satisfied_conditions(conditions, e) > 0

\* the loop of evaluate_node_for_rule / check_node_recovery: a condition whose
\* metric is None is skipped (`continue`), the others are counted when satisfied
Controller_condition_satisfied(condition, e) ==
    LET metric_value == Controller_get_metric_value(e, condition.metric) IN
    /\ metric_value # None
    /\ Controller_evaluate_condition(metric_value, condition.operator, condition.value)

Controller_satisfied_conditions(conditions, e) ==
    Cardinality({i \in DOMAIN conditions : Controller_condition_satisfied(conditions[i], e)})

\* the combining step of evaluate_node_for_rule (after the cooldown check)
Controller_combine(conditions, condition_logic, e) ==
    IF condition_logic = "AND"
    THEN Controller_satisfied_conditions(conditions, e) = Len(conditions)
    ELSE Controller_satisfied_conditions(conditions, e) > 0

-----------------------------------------------------------------------------
(* Platform node objects and node selection *)

Taint(k, v, e) == [key |-> k, value |-> v, effect |-> e]
NodeObj(labels, taints, annotations) ==
    [labels |-> labels, taints |-> taints, annotations |-> annotations]

NodeOrder == <<W1, W2>>             \* the order in which the platform lists nodes

\* nodeSelector of a rule: the two keys of the resource definition, each present
\* or not, and `other`: further top-level key=value pairs (a flat label map)
Selector(hasNames, names, hasLabels, labels, other) ==
    [hasNodeNames |-> hasNames, nodeNames |-> names,
     hasMatchLabels |-> hasLabels, matchLabels |-> labels, other |-> other]

\* One requirement key=value of a label-selector expression.  plain = FALSE: the
\* value is the text of a Python list or dict, which is no label value.
Req(k, v, plain) == [key |-> k, value |-> v, plain |-> plain]

NodeHasLabel(n, req) ==
    req.plain /\ req.key \in DOMAIN n.labels /\ n.labels[req.key] = req.value

\* The platform's answer to list-nodes with a label selector (CoreV1Api.list_node,
\* `kubectl get nodes --selector`): an unparsable selector is an error, answered
\* as [] by both callers; no selector lists every node.
PlatformListNodes(nodeObjs, reqs) ==
    IF \E i \in DOMAIN reqs : ~reqs[i].plain THEN <<>>
    ELSE SelectSeq(NodeOrder,
                   LAMBDA n : \A i \in DOMAIN reqs : NodeHasLabel(nodeObjs[n], reqs[i]))

\* the label selector RuleEngine.get_matching_nodes builds: the items of
\* matchLabels in the order of the dict
RuleEngine_label_selector(node_selector) ==
    IF node_selector.hasMatchLabels
    THEN [i \in DOMAIN node_selector.matchLabels |->
            Req(node_selector.matchLabels[i][1], node_selector.matchLabels[i][2], TRUE)]
    ELSE <<>>

\* RuleEngine.get_matching_nodes
RuleEngine_get_matching_nodes(node_selector, nodeObjs) ==
    IF node_selector.hasNodeNames THEN node_selector.nodeNames
    ELSE PlatformListNodes(nodeObjs, RuleEngine_label_selector(node_selector))

\* the selector parts NodeGuardianController.get_matching_nodes builds: one
\* key=value per TOP-LEVEL item of nodeSelector
Controller_selector_parts(node_selector) ==
    (IF node_selector.hasNodeNames
     THEN <<Req("nodeNames", node_selector.nodeNames, FALSE)>> ELSE <<>>)
    \o (IF node_selector.hasMatchLabels
        THEN <<Req("matchLabels", node_selector.matchLabels, FALSE)>> ELSE <<>>)
    \o [i \in DOMAIN node_selector.other |->
            Req(node_selector.other[i][1], node_selector.other[i][2], TRUE)]

\* NodeGuardianController.get_matching_nodes (RecoveryManager.get_matching_nodes is the same text)
Controller_get_matching_nodes(node_selector, nodeObjs) ==
    PlatformListNodes(nodeObjs, Controller_selector_parts(node_selector))

-----------------------------------------------------------------------------
(* Node mutations of the library's platform client *)

\* The platform's validation of a node update: taints are unique by (key, effect)
PlatformAcceptsTaints(taints) ==
    \A i, j \in DOMAIN taints :
        (taints[i].key = taints[j].key /\ taints[i].effect = taints[j].effect) => i = j

\* KubernetesClient.taint_node: read the node, append the taint, patch; a
\* rejected patch (ApiException) leaves the node as it was
KubernetesClient_taint_node(n, key, value, effect) ==
    LET taints == Append(n.taints, Taint(key, value, effect)) IN
    IF PlatformAcceptsTaints(taints) THEN [n EXCEPT !.taints = taints] ELSE n

\* KubernetesClient.remove_taint
KubernetesClient_remove_taint(n, key) ==
    [n EXCEPT !.taints = SelectSeq(n.taints, LAMBDA t : t.key # key)]

\* dict.update with a sequence of <<key, value>> pairs
RECURSIVE DictUpdate(_, _)
DictUpdate(d, pairs) ==
    IF pairs = <<>> THEN d
    ELSE DictUpdate(Put(d, Head(pairs)[1], Head(pairs)[2]), Tail(pairs))

\* KubernetesClient.label_node
KubernetesClient_label_node(n, labels) ==
    [n EXCEPT !.labels = DictUpdate(n.labels, labels)]

\* KubernetesClient.remove_labels
KubernetesClient_remove_labels(n, keys) ==
    [n EXCEPT !.labels = Drop(n.labels, Range(keys))]

\* KubernetesClient.annotate_node
KubernetesClient_annotate_node(n, annotations) ==
    [n EXCEPT !.annotations = DictUpdate(n.annotations, annotations)]

\* KubernetesClient.remove_annotations
KubernetesClient_remove_annotations(n, keys) ==
    [n EXCEPT !.annotations = Drop(n.annotations, Range(keys))]

\* `kubectl taint nodes N key=value:effect --overwrite`: the taint with this key
\* and effect is replaced, another one is added
Kubectl_taint_overwrite(n, key, value, effect) ==
    [n EXCEPT !.taints =
        Append(SelectSeq(n.taints, LAMBDA t : ~(t.key = key /\ t.effect = effect)),
               Taint(key, value, effect))]

-----------------------------------------------------------------------------
(* Durations and the cooldown ledger *)

Dur(n, unit) == [n |-> n, unit |-> unit]        \* the text f"{n}{unit}"

\* RuleEngine._parse_duration
RuleEngine_parse_duration(duration) ==
    CASE duration.unit = "s" -> duration.n
      [] duration.unit = "m" -> duration.n * 60
      [] duration.unit = "h" -> duration.n * 3600
      [] duration.unit = "d" -> duration.n * 86400
      [] OTHER -> duration.n

\* f"{rule_name}_{node_name}"
CooldownFile(rule_name, node_name) == rule_name \o <<"_">> \o node_name

\* RuleEngine.is_in_cooldown.  With the file present, line 238 evaluates
\* `rule.monitoring`, and no name `rule` is bound in the method or the module:
\* the NameError is caught by the handler of line 242, which returns False.
RuleEngine_is_in_cooldown(cd, t, rule_name, node_name) ==
    IF CooldownFile(rule_name, node_name) \notin DOMAIN cd THEN FALSE
    ELSE FALSE

\* the entry of (rule, node) in the cooldown directory, None without a file
CooldownEntry(cd, rule_name, node_name) ==
    IF CooldownFile(rule_name, node_name) \in DOMAIN cd
    THEN cd[CooldownFile(rule_name, node_name)] ELSE None

\* RuleEngine.set_cooldown
RuleEngine_set_cooldown(cd, t, rule_name, node_name) ==
    Put(cd, CooldownFile(rule_name, node_name), t)

\* the parsing inside NodeGuardianController.check_cooldown
Controller_cooldown_seconds(cooldown_period) ==
    CASE cooldown_period.unit = "m" -> cooldown_period.n * 60
      [] cooldown_period.unit = "s" -> cooldown_period.n
      [] OTHER -> 300

\* NodeGuardianController.check_cooldown
Controller_check_cooldown(cd, t, rule_name, node_name, cooldown_period) ==
    IF CooldownFile(rule_name, node_name) \notin DOMAIN cd THEN FALSE
    ELSE (t - cd[CooldownFile(rule_name, node_name)])
            < Controller_cooldown_seconds(cooldown_period)

\* NodeGuardianController.set_cooldown (touch: the file's mtime is the entry)
Controller_set_cooldown(cd, t, rule_name, node_name) ==
    Put(cd, CooldownFile(rule_name, node_name), t)

-----------------------------------------------------------------------------
(* Rule objects *)

RA == <<"hot">>                         \* the rule "hot"
RB == <<"hot", "_", "recovery">>        \* the rule "hot_recovery"
RuleNames == {RA, RB}

TaintAct(k, v, e) == [type |-> "taint", key |-> k, value |-> v, effect |-> e, pairs |-> <<>>]
LabelAct(pairs) == [type |-> "label", key |-> "", value |-> "", effect |-> "", pairs |-> pairs]
AnnotationAct(pairs) ==
    [type |-> "annotation", key |-> "", value |-> "", effect |-> "", pairs |-> pairs]
OtherAct(type) == [type |-> type, key |-> "", value |-> "", effect |-> "", pairs |-> <<>>]

\* A NodeGuardianRule object (metadata.name and spec), as the watch delivers it
\* and as the mirror file holds it
RuleObj(name, enabled, sel, conds, logic, acts, cooldown) ==
    [name |-> name, enabled |-> enabled, nodeSelector |-> sel,
     conditions |-> conds, conditionLogic |-> logic, actions |-> acts,
     recoveryConditions |-> <<>>, recoveryConditionLogic |-> "AND",
     recoveryActions |-> <<>>,
     cooldownPeriod |-> cooldown, recoveryCooldownPeriod |-> Dur(2, "m")]

\* the recovery actions of recovery_manager.py
UntaintAct(k, v, e) == [type |-> "untaint", key |-> k, value |-> v, effect |-> e, pairs |-> <<>>]
RemoveLabelAct(keys) ==
    [type |-> "removeLabel", key |-> "", value |-> "", effect |-> "",
     pairs |-> [i \in DOMAIN keys |-> <<keys[i], "">>]]
RemoveAnnotationAct(keys) ==
    [type |-> "removeAnnotation", key |-> "", value |-> "", effect |-> "",
     pairs |-> [i \in DOMAIN keys |-> <<keys[i], "">>]]

\* the rule object with spec.recoveryConditions, spec.recoveryActions and
\* spec.monitoring.recoveryCooldownPeriod given
WithRecovery(rule_object, conds, acts, period) ==
    [rule_object EXCEPT !.recoveryConditions = conds, !.recoveryActions = acts,
                        !.recoveryCooldownPeriod = period]

NoSelector == Selector(FALSE, <<>>, FALSE, <<>>, <<>>)
Workers == Selector(FALSE, <<>>, TRUE, <<<<"role", "worker">>>>, <<>>)
OnlyW1 == Selector(TRUE, <<W1>>, FALSE, <<>>, <<>>)
FlatWorkers == Selector(FALSE, <<>>, FALSE, <<>>, <<<<"role", "worker">>>>)

CpuHigh == Cond("cpuUtilizationPercent", "GreaterThan", Pct(80))
MemHigh == Cond("memoryUtilizationPercent", "GreaterThan", Pct(90))
CpuHighSym == Cond("cpuUtilizationPercent", ">", Pct(80))
CpuLowSym == Cond("cpuUtilizationPercent", "<", Pct(50))

Overload(effect) == TaintAct("k8s.io/overload", "1", effect)
Mark == LabelAct(<<<<"nodeguardian.io/rule-triggered", "true">>>>)
Unmark == RemoveLabelAct(<<"nodeguardian.io/rule-triggered">>)

\* the rules the library engine is given (the resource definition's dialect)
LibCatalog ==
    { RuleObj(RA, TRUE, Workers, <<CpuHigh>>, "AND", <<Overload("NoSchedule"), Mark>>, Dur(1, "m")),
      RuleObj(RA, FALSE, Workers, <<CpuHigh>>, "AND", <<Overload("NoSchedule"), Mark>>, Dur(1, "m")),
      RuleObj(RB, TRUE, OnlyW1, <<CpuHigh, MemHigh>>, "OR",
              <<OtherAct("notify"), Mark>>, Dur(0, "s")) }

\* the rules the script controller is given, in the dialect its own code reads
\* (flat selector, symbolic operators)
ScriptCatalog ==
    { RuleObj(RA, TRUE, FlatWorkers, <<CpuHighSym>>, "AND", <<Overload("NoSchedule"), Mark>>, Dur(1, "s")),
      RuleObj(RA, FALSE, FlatWorkers, <<CpuHighSym>>, "AND", <<Overload("NoSchedule"), Mark>>, Dur(1, "s")),
      RuleObj(RB, TRUE, NoSelector, <<CpuHighSym>>, "OR",
              <<OtherAct("notify"), Mark>>, Dur(0, "s")) }

\* the rule "hot" of the recovery scenarios: it undoes its remediation when the
\* CPU is low again (enabled and disabled), or declares recovery conditions and
\* no recovery action
RecoveryCatalog ==
    { WithRecovery(r, <<CpuLowSym>>, acts, Dur(1, "s")) :
        r \in {o \in ScriptCatalog : o.name = RA},
        acts \in {<<UntaintAct("k8s.io/overload", "1", "NoSchedule"), Unmark>>, <<>>} }

Outcomes == {"ok", "failed", "raised"}
\* What happens to each action of a batch, by its position: "ok"; "failed": the
\* platform call reports a failure (ApiException, CalledProcessError); "raised":
\* the action raises anything else (OSError of subprocess.run, ValueError of
\* json.loads, TypeError / AttributeError on the action's body, a connection error)
Faults == {f \in [1..2 -> Outcomes] : f[2] = "ok"}
OutcomeOf(fault, i) == IF i \in DOMAIN fault THEN fault[i] ELSE "ok"

MetOf(mets, n) == IF n \in DOMAIN mets THEN mets[n] ELSE EnvDown

-----------------------------------------------------------------------------
(* Rule status on the platform, and the histories *)

\* (the timestamps lastTriggered / lastUpdate of the patches are left out: nothing reads them)
NoStatus == [exists |-> FALSE, phase |-> "", lastError |-> "", status |-> "",
             message |-> "", triggeredNodes |-> <<>>]

\* KubernetesClient.update_rule_status: a merge patch of status; a missing
\* object answers ApiException, which is caught
KubernetesClient_update_rule_status(st, rule_name, phase, message, triggered_nodes, t) ==
    IF ~st[rule_name].exists THEN st
    ELSE [st EXCEPT ![rule_name] =
            [@ EXCEPT !.phase = phase, !.triggeredNodes = triggered_nodes,
                      !.lastError = message]]

\* NodeGuardianController.update_rule_status: `kubectl patch --type=merge`; a
\* failing kubectl is a CalledProcessError, which is caught
Controller_update_rule_status(st, rule_name, stat, message, triggered_nodes, t) ==
    IF ~st[rule_name].exists THEN st
    ELSE [st EXCEPT ![rule_name] =
            [@ EXCEPT !.status = stat, !.message = message,
                      !.triggeredNodes = triggered_nodes]]

\* history: the fire of rule_name on the triggered nodes at time t
AddFires(f, rule_name, triggered, t) ==
    [k \in DOMAIN f |->
        IF Len(k) = 2 /\ k[1] = rule_name /\ k[2] \in Range(triggered) THEN t ELSE f[k]]

\* history: one executed batch.  declared: the number of actions of the rule;
\* attempted: the positions of the actions that were started, in order; marked:
\* whether the cooldowns were written; period: the rule's cooldownPeriod in
\* seconds; prev: the time of the previous fire on each node of the batch;
\* before: the rule's cooldown entry of every node when the batch started
Batch(impl, rule_object, triggered, attempted, marked, t, fires, cd) ==
    [impl |-> impl, rule |-> rule_object.name, nodes |-> triggered,
     declared |-> Len(rule_object.actions), attempted |-> attempted, marked |-> marked,
     time |-> t, period |-> RuleEngine_parse_duration(rule_object.cooldownPeriod),
     prev |-> [n \in Range(triggered) |->
                IF <<rule_object.name, n>> \in DOMAIN fires
                THEN fires[<<rule_object.name, n>>] ELSE None],
     before |-> [n \in NodeNames |-> CooldownEntry(cd, rule_object.name, n)]]

\* the state a tick works on
World(cd, nodeObjs, st, log, fires) ==
    [cd |-> cd, nodes |-> nodeObjs, status |-> st, log |-> log, fires |-> fires]

-----------------------------------------------------------------------------
(* The library engine: RuleEngine *)

KnownActionTypes == {"taint", "alert", "evict", "label", "annotation"}

\* dict.get(key, default)
DictGet(d, key, default) == IF key \in DOMAIN d THEN d[key] ELSE default
Restrict(d, keys) == [k \in DOMAIN d \cap keys |-> d[k]]

\* The keys of a rule document that the resource definition puts under
\* spec.monitoring and under spec.metadata (`enabled` of a document is
\* spec.metadata.enabled); a document holds the keys it was written with
MonitoringKeys == {"cooldownPeriod", "recoveryCooldownPeriod", "checkInterval"}
MetadataKeys == {"enabled", "description", "priority"}

\* the Condition built by load_rule from one item of spec.conditions:
\* duration and description get their defaults, value is float(value)
RuleEngine_load_condition(cond_data) ==
    [metric |-> cond_data.metric, operator |-> cond_data.operator,
     value |-> cond_data.value,
     duration |-> DictGet(cond_data, "duration", [n |-> 5, unit |-> "m"]),
     description |-> DictGet(cond_data, "description", "")]

\* RuleEngine.load_rule: the Rule built from a rule document.  Absent keys get
\* the defaults of the .get calls, `metadata` is spec.metadata as it is and
\* `enabled` is read out of it; spec.monitoring is kept as it is (its keys stay
\* at the top level here, as in the document); nothing else of the document
\* (spec.recoveryConditionLogic) reaches the Rule.  No field is validated.
RuleEngine_load_rule(rule_data) ==
    [name |-> rule_data.name,
     conditions |-> [i \in DOMAIN DictGet(rule_data, "conditions", <<>>) |->
                        RuleEngine_load_condition(rule_data.conditions[i])],
     conditionLogic |-> DictGet(rule_data, "conditionLogic", "AND"),
     nodeSelector |-> DictGet(rule_data, "nodeSelector",
                              [hasNodeNames |-> FALSE, nodeNames |-> <<>>,
                               hasMatchLabels |-> FALSE, matchLabels |-> <<>>,
                               other |-> <<>>]),
     actions |-> DictGet(rule_data, "actions", <<>>),
     recoveryConditions |-> [i \in DOMAIN DictGet(rule_data, "recoveryConditions", <<>>) |->
                                RuleEngine_load_condition(rule_data.recoveryConditions[i])],
     recoveryActions |-> DictGet(rule_data, "recoveryActions", <<>>),
     metadata |-> Restrict(rule_data, MetadataKeys),
     enabled |-> DictGet(rule_data, "enabled", TRUE)]
    @@ Restrict(rule_data, MonitoringKeys)

\* the document save_rule writes, with spec.metadata taken from rule.metadata
\* only
RuleEngine_rule_data_without_metadata(rule) ==
    [name |-> rule.name, conditions |-> rule.conditions,
     conditionLogic |-> rule.conditionLogic, nodeSelector |-> rule.nodeSelector,
     actions |-> rule.actions, recoveryConditions |-> rule.recoveryConditions,
     recoveryActions |-> rule.recoveryActions]
    @@ Restrict(rule, MonitoringKeys)

RuleEngine_rule_data(rule) ==
    [name |-> rule.name, conditions |-> rule.conditions,
     conditionLogic |-> rule.conditionLogic, nodeSelector |-> rule.nodeSelector,
     actions |-> rule.actions, recoveryConditions |-> rule.recoveryConditions,
     recoveryActions |-> rule.recoveryActions]
    @@ Restrict(rule, MonitoringKeys) @@ rule.metadata

\* RuleEngine.save_rule: json.dump of the document into <name>.json
RuleEngine_save_rule(rules, rule) == Put(rules, rule.name, RuleEngine_rule_data(rule))

\* RuleEngine.delete_rule: the mirror file, and glob(f"{rule_name}_*") of the
\* cooldown directory
RuleEngine_delete_rule_files(rules, rule_name) == Drop(rules, {rule_name})
RuleEngine_delete_rule_cooldowns(cd, rule_name) ==
    Drop(cd, {k \in DOMAIN cd : IsPrefix(rule_name \o <<"_">>, k)})

\* RuleEngine.load_rule_from_file: None when the file does not exist
RuleEngine_load_rule_from_file(rules, rule_name) ==
    IF rule_name \notin DOMAIN rules THEN <<>> ELSE <<RuleEngine_load_rule(rules[rule_name])>>

\* RuleEngine.evaluate_rule: the triggered nodes
RuleEngine_evaluate_rule(rule, cd, t, nodeObjs, mets) ==
    IF ~rule.enabled THEN <<>>
    ELSE SelectSeq(RuleEngine_get_matching_nodes(rule.nodeSelector, nodeObjs),
            LAMBDA n : /\ ~RuleEngine_is_in_cooldown(cd, t, rule.name, n)
                       /\ RuleEngine_evaluate_rule_conditions(
                              rule.conditions, rule.conditionLogic, MetOf(mets, n)))

\* RuleEngine._execute_taint_action / _execute_label_action /
\* _execute_annotation_action: the action on every triggered node, in order
RECURSIVE RuleEngine_apply_action(_, _, _)
RuleEngine_apply_action(nodeObjs, action, triggered_nodes) ==
    IF triggered_nodes = <<>> THEN nodeObjs
    ELSE LET n == Head(triggered_nodes)
             after ==
                IF n \notin DOMAIN nodeObjs THEN nodeObjs
                ELSE [nodeObjs EXCEPT ![n] =
                    CASE action.type = "taint" ->
                            KubernetesClient_taint_node(@, action.key, action.value, action.effect)
                      [] action.type = "label" -> KubernetesClient_label_node(@, action.pairs)
                      [] action.type = "annotation" -> KubernetesClient_annotate_node(@, action.pairs)
                      [] OTHER -> @]
         IN RuleEngine_apply_action(after, action, Tail(triggered_nodes))

\* RuleEngine._execute_action under the try / except of execute_actions: an
\* action that fails or raises changes no node, and the loop goes on
RuleEngine_execute_action(nodeObjs, action, triggered_nodes, outcome) ==
    IF action.type \in KnownActionTypes /\ outcome # "ok" THEN nodeObjs
    ELSE RuleEngine_apply_action(nodeObjs, action, triggered_nodes)

RECURSIVE RuleEngine_run_actions(_, _, _, _, _)
RuleEngine_run_actions(nodeObjs, actions, i, triggered_nodes, fault) ==
    IF i > Len(actions) THEN nodeObjs
    ELSE RuleEngine_run_actions(
            RuleEngine_execute_action(nodeObjs, actions[i], triggered_nodes, OutcomeOf(fault, i)),
            actions, i + 1, triggered_nodes, fault)

RECURSIVE RuleEngine_set_cooldowns(_, _, _, _)
RuleEngine_set_cooldowns(cd, t, rule_name, triggered_nodes) ==
    IF triggered_nodes = <<>> THEN cd
    ELSE RuleEngine_set_cooldowns(RuleEngine_set_cooldown(cd, t, rule_name, Head(triggered_nodes)),
                                  t, rule_name, Tail(triggered_nodes))

\* RuleEngine.execute_actions
RuleEngine_execute_actions(w, rule, triggered_nodes, t, fault) ==
    IF triggered_nodes = <<>> THEN w
    ELSE World(
        RuleEngine_set_cooldowns(w.cd, t, rule.name, triggered_nodes),
        RuleEngine_run_actions(w.nodes, rule.actions, 1, triggered_nodes, fault),
        KubernetesClient_update_rule_status(w.status, rule.name, "Active", "Rule triggered",
                                            triggered_nodes, t),
        Put(w.log, rule.name, Batch("library", rule, triggered_nodes,
                                    [i \in 1..Len(rule.actions) |-> i], TRUE, t, w.fires,
                                    w.cd)),
        AddFires(w.fires, rule.name, triggered_nodes, t))

\* RuleEngine.evaluate_all_rules over the mirror files in listing order
RECURSIVE RuleEngine_evaluate_all_rules(_, _, _, _, _, _)
RuleEngine_evaluate_all_rules(w, order, rules, t, mets, fault) ==
    IF order = <<>> THEN w
    ELSE LET rule == RuleEngine_load_rule(rules[Head(order)])
             triggered_nodes == RuleEngine_evaluate_rule(rule, w.cd, t, w.nodes, mets)
         IN RuleEngine_evaluate_all_rules(
                RuleEngine_execute_actions(w, rule, triggered_nodes, t, fault),
                Tail(order), rules, t, mets, fault)

-----------------------------------------------------------------------------
(* The script controller: NodeGuardianController *)

\* NodeGuardianController.evaluate_node_for_rule
Controller_evaluate_node_for_rule(rule_object, node_name, cd, t, e) ==
    IF Controller_check_cooldown(cd, t, rule_object.name, node_name, rule_object.cooldownPeriod)
    THEN FALSE
    ELSE Controller_combine(rule_object.conditions, rule_object.conditionLogic, e)

\* execute_taint_action / execute_label_action / execute_annotation_action:
\* kubectl on every triggered node, in order
RECURSIVE Controller_apply_action(_, _, _)
Controller_apply_action(nodeObjs, action, triggered_nodes) ==
    IF triggered_nodes = <<>> THEN nodeObjs
    ELSE LET n == Head(triggered_nodes)
             after ==
                IF n \notin DOMAIN nodeObjs THEN nodeObjs
                ELSE [nodeObjs EXCEPT ![n] =
                    CASE action.type = "taint" ->
                            Kubectl_taint_overwrite(@, action.key, action.value, action.effect)
                      [] action.type = "label" -> [@ EXCEPT !.labels = DictUpdate(@, action.pairs)]
                      [] action.type = "annotation" ->
                            [@ EXCEPT !.annotations = DictUpdate(@, action.pairs)]
                      [] OTHER -> @]
         IN Controller_apply_action(after, action, Tail(triggered_nodes))

\* The loop of execute_rule_actions.  Each executor catches CalledProcessError
\* only and the loop has no handler: an action that raises anything else ends
\* the loop.  [nodes, attempted, raised]
RECURSIVE Controller_run_actions(_, _, _, _, _, _)
Controller_run_actions(nodeObjs, actions, i, triggered_nodes, fault, attempted) ==
    IF i > Len(actions)
    THEN [nodes |-> nodeObjs, attempted |-> attempted, raised |-> FALSE]
    ELSE LET outcome == IF actions[i].type \in KnownActionTypes
                        THEN OutcomeOf(fault, i) ELSE "ok" IN
         IF outcome = "raised"
         THEN [nodes |-> nodeObjs, attempted |-> Append(attempted, i), raised |-> TRUE]
         ELSE Controller_run_actions(
                IF outcome = "ok"
                THEN Controller_apply_action(nodeObjs, actions[i], triggered_nodes)
                ELSE nodeObjs,
                actions, i + 1, triggered_nodes, fault, Append(attempted, i))

RECURSIVE Controller_set_cooldowns(_, _, _, _)
Controller_set_cooldowns(cd, t, rule_name, triggered_nodes) ==
    IF triggered_nodes = <<>> THEN cd
    ELSE Controller_set_cooldowns(Controller_set_cooldown(cd, t, rule_name, Head(triggered_nodes)),
                                  t, rule_name, Tail(triggered_nodes))

\* NodeGuardianController.execute_rule_actions followed by the status update of
\* evaluate_rule; an exception leaves the try block of evaluate_rule before the
\* cooldowns are set and the status is patched
Controller_execute_rule_actions(w, rule_object, triggered_nodes, t, fault) ==
    LET run == Controller_run_actions(w.nodes, rule_object.actions, 1, triggered_nodes,
                                      fault, <<>>)
        log == Put(w.log, rule_object.name,
                   Batch("script", rule_object, triggered_nodes, run.attempted,
                         ~run.raised, t, w.fires, w.cd))
        fires == AddFires(w.fires, rule_object.name, triggered_nodes, t)
    IN IF run.raised THEN World(w.cd, run.nodes, w.status, log, fires)
       ELSE World(Controller_set_cooldowns(w.cd, t, rule_object.name, triggered_nodes),
                  run.nodes,
                  Controller_update_rule_status(w.status, rule_object.name, "Active",
                                                "Rule triggered", triggered_nodes, t),
                  log, fires)

\* NodeGuardianController.evaluate_rule
Controller_evaluate_rule(w, rule_object, t, mets, fault) ==
    IF ~rule_object.enabled THEN w
    ELSE LET matching_nodes == Controller_get_matching_nodes(rule_object.nodeSelector, w.nodes)
             triggered_nodes ==
                SelectSeq(matching_nodes,
                    LAMBDA n : Controller_evaluate_node_for_rule(rule_object, n, w.cd, t,
                                                                 MetOf(mets, n)))
         IN IF triggered_nodes = <<>> THEN w
            ELSE Controller_execute_rule_actions(w, rule_object, triggered_nodes, t, fault)

\* NodeGuardianController.evaluate_all_rules over the mirror files in glob order
RECURSIVE Controller_evaluate_all_rules(_, _, _, _, _, _)
Controller_evaluate_all_rules(w, order, rules, t, mets, fault) ==
    IF order = <<>> THEN w
    ELSE Controller_evaluate_all_rules(
            Controller_evaluate_rule(w, rules[Head(order)], t, mets, fault),
            Tail(order), rules, t, mets, fault)

\* NodeGuardianController.register_rule: [rules, status]
Controller_register_rule(rules, st, rule_object, t) ==
    [rules |-> Put(rules, rule_object.name, rule_object),
     status |-> Controller_update_rule_status(st, rule_object.name, "Active", "", <<>>, t)]

\* unregister_rule without the os.remove of the mirror file
Controller_unregister_rule_keeping_file(rules, cd, st, rule_name, t) ==
    [rules |-> rules,
     cd |-> Drop(cd, {k \in DOMAIN cd : IsPrefix(rule_name \o <<"_">>, k)}),
     status |-> Controller_update_rule_status(st, rule_name, "Inactive", "Rule deleted", <<>>, t)]

\* unregister_rule removing f"{rule_name}_{node}" of the nodes instead of the
\* glob f"{rule_name}_*"
Controller_unregister_rule_keeping_recovery_cooldowns(rules, cd, st, rule_name, t) ==
    [rules |-> Drop(rules, {rule_name}),
     cd |-> Drop(cd, {CooldownFile(rule_name, n) : n \in NodeNames}),
     status |-> Controller_update_rule_status(st, rule_name, "Inactive", "Rule deleted", <<>>, t)]

\* NodeGuardianController.unregister_rule: [rules, cd, status]
Controller_unregister_rule(rules, cd, st, rule_name, t) ==
    [rules |-> Drop(rules, {rule_name}),
     cd |-> Drop(cd, {k \in DOMAIN cd : IsPrefix(rule_name \o <<"_">>, k)}),
     status |-> Controller_update_rule_status(st, rule_name, "Inactive", "Rule deleted", <<>>, t)]

\* handle_rule_event without the branch of "Deleted"
Controller_handle_rule_event_ignoring_deleted(rules, cd, st, watch_event, rule_object, t) ==
    IF watch_event \in {"Added", "Modified"} /\ rule_object.enabled
    THEN LET reg == Controller_register_rule(rules, st, rule_object, t) IN
         [rules |-> reg.rules, cd |-> cd, status |-> reg.status]
    ELSE IF watch_event \in {"Added", "Modified"}
         THEN Controller_unregister_rule(rules, cd, st, rule_object.name, t)
         ELSE [rules |-> rules, cd |-> cd, status |-> st]

\* NodeGuardianController.handle_rule_event: [rules, cd, status]
Controller_handle_rule_event(rules, cd, st, watch_event, rule_object, t) ==
    IF watch_event \in {"Added", "Modified"} /\ rule_object.enabled
    THEN LET reg == Controller_register_rule(rules, st, rule_object, t) IN
         [rules |-> reg.rules, cd |-> cd, status |-> reg.status]
    ELSE IF watch_event \in {"Added", "Modified", "Deleted"}
         THEN Controller_unregister_rule(rules, cd, st, rule_object.name, t)
         ELSE [rules |-> rules, cd |-> cd, status |-> st]

-----------------------------------------------------------------------------
(* The recovery driver: RecoveryManager (scripts/recovery_manager.py) *)

\* f"{rule_name}_recovery", the name the recovery cooldown is kept under
RecoveryName(rule_name) == rule_name \o <<"_", "recovery">>

\* RecoveryManager.get_metric_value: the CPU from `kubectl top node`, the
\* others the script's fixed figures (45.0, 40.0, 0.8)
Recovery_get_metric_value(e, metric) ==
    CASE metric = "cpuUtilizationPercent" -> Controller_get_node_cpu_utilization(e)
      [] metric = "memoryUtilizationPercent" -> IF e.topCpu = Fail THEN None ELSE Pct(45)
      [] metric = "diskUtilizationPercent" -> Pct(40)
      [] metric = "cpuLoadRatio" -> 1600
      [] OTHER -> None

\* the parsing inside RecoveryManager.check_cooldown
Recovery_cooldown_seconds(cooldown_period) ==
    CASE cooldown_period.unit = "m" -> cooldown_period.n * 60
      [] cooldown_period.unit = "s" -> cooldown_period.n
      [] OTHER -> 120

\* RecoveryManager.check_cooldown
Recovery_check_cooldown(cd, t, rule_name, node_name, cooldown_period) ==
    IF CooldownFile(rule_name, node_name) \notin DOMAIN cd THEN FALSE
    ELSE (t - cd[CooldownFile(rule_name, node_name)])
            < Recovery_cooldown_seconds(cooldown_period)

\* RecoveryManager.set_cooldown (touch)
Recovery_set_cooldown(cd, t, rule_name, node_name) ==
    Put(cd, CooldownFile(rule_name, node_name), t)

\* RecoveryManager.is_node_triggered: the text "nodeguardian/rule-triggered" in
\* `kubectl describe node`, or "nodeguardian.io/rule-triggered" in the labels;
\* neither test names the rule
Recovery_is_node_triggered(n) ==
    \/ \E i \in DOMAIN n.taints : n.taints[i].key = "nodeguardian/rule-triggered"
    \/ "nodeguardian/rule-triggered" \in (DOMAIN n.labels \cup DOMAIN n.annotations)
    \/ "nodeguardian.io/rule-triggered" \in DOMAIN n.labels

\* the loop of check_node_recovery: a condition whose metric is None is skipped
Recovery_condition_satisfied(condition, e) ==
    LET metric_value == Recovery_get_metric_value(e, condition.metric) IN
    /\ metric_value # None
    /\ Controller_evaluate_condition(metric_value, condition.operator, condition.value)

\* RecoveryManager.check_node_recovery
Recovery_check_node_recovery(rule_object, node_name, cd, t, nodeObjs, e) ==
    LET satisfied == Cardinality({i \in DOMAIN rule_object.recoveryConditions :
                        Recovery_condition_satisfied(rule_object.recoveryConditions[i], e)})
    IN
    IF ~Recovery_is_node_triggered(nodeObjs[node_name]) THEN FALSE
    ELSE IF Recovery_check_cooldown(cd, t, RecoveryName(rule_object.name), node_name,
                                    rule_object.recoveryCooldownPeriod) THEN FALSE
    ELSE IF rule_object.recoveryConditionLogic = "AND"
         THEN satisfied = Len(rule_object.recoveryConditions)
         ELSE satisfied > 0

\* execute_untaint_action: `kubectl taint nodes N key=value:effect --overwrite`
\* (the command that sets the taint; the removal form ends in "-")
Recovery_execute_untaint_action(n, action) ==
    Kubectl_taint_overwrite(n, action.key, action.value, action.effect)

\* execute_remove_label_action: `kubectl label nodes N <label>-` for each label
Recovery_execute_remove_label_action(n, action) ==
    [n EXCEPT !.labels = Drop(@, {action.pairs[i][1] : i \in DOMAIN action.pairs})]

\* execute_remove_annotation_action: `kubectl annotate nodes N <annotation>-`
Recovery_execute_remove_annotation_action(n, action) ==
    [n EXCEPT !.annotations = Drop(@, {action.pairs[i][1] : i \in DOMAIN action.pairs})]

RecoveryActionTypes == {"untaint", "removeLabel", "removeAnnotation", "alert"}

\* The loop of execute_recovery_actions on one node.  Each executor catches
\* CalledProcessError only and the loop has no handler.  [nodes, attempted, raised]
RECURSIVE Recovery_run_actions(_, _, _, _, _, _)
Recovery_run_actions(nodeObjs, actions, i, node_name, fault, attempted) ==
    IF i > Len(actions)
    THEN [nodes |-> nodeObjs, attempted |-> attempted, raised |-> FALSE]
    ELSE LET outcome == IF actions[i].type \in RecoveryActionTypes
                        THEN OutcomeOf(fault, i) ELSE "ok" IN
         IF outcome = "raised"
         THEN [nodes |-> nodeObjs, attempted |-> Append(attempted, i), raised |-> TRUE]
         ELSE Recovery_run_actions(
                IF outcome # "ok" THEN nodeObjs
                ELSE [nodeObjs EXCEPT ![node_name] =
                        CASE actions[i].type = "untaint" ->
                                Recovery_execute_untaint_action(@, actions[i])
                          [] actions[i].type = "removeLabel" ->
                                Recovery_execute_remove_label_action(@, actions[i])
                          [] actions[i].type = "removeAnnotation" ->
                                Recovery_execute_remove_annotation_action(@, actions[i])
                          [] OTHER -> @],
                actions, i + 1, node_name, fault, Append(attempted, i))

\* RecoveryManager.update_rule_recovery_status: the node is taken out of
\* status.triggeredNodes; a missing object is a CalledProcessError, caught
Recovery_update_rule_recovery_status(st, rule_name, node_name) ==
    IF ~st[rule_name].exists THEN st
    ELSE [st EXCEPT ![rule_name].triggeredNodes = SelectSeq(@, LAMBDA m : m # node_name)]

\* history: what a recovery tick did for a pair it found recovered.  listed:
\* status.triggeredNodes when the pair was found; before: the recovery cooldown
\* entry then; prev: the time of the previous execution of the recovery actions
RecoveryRecord(rule_object, node_name, attempted, marked, t, w) ==
    [rule |-> rule_object.name, node |-> node_name,
     conditions |-> rule_object.recoveryConditions,
     declared |-> Len(rule_object.recoveryActions), attempted |-> attempted,
     marked |-> marked, time |-> t,
     period |-> RuleEngine_parse_duration(rule_object.recoveryCooldownPeriod),
     listed |-> w.status[rule_object.name].triggeredNodes,
     before |-> CooldownEntry(w.cd, RecoveryName(rule_object.name), node_name),
     prev |-> w.fires[<<rule_object.name, node_name, "recovery">>]]

\* RecoveryManager.execute_recovery_actions.  [w, raised]
Recovery_execute_recovery_actions(w, rule_object, node_name, t, fault) ==
    IF rule_object.recoveryActions = <<>>
    THEN [w |-> [w EXCEPT !.log = Put(@, <<rule_object.name, node_name>>,
                        RecoveryRecord(rule_object, node_name, <<>>, FALSE, t, w))],
          raised |-> FALSE]
    ELSE LET run == Recovery_run_actions(w.nodes, rule_object.recoveryActions, 1, node_name,
                                         fault, <<>>)
             log == Put(w.log, <<rule_object.name, node_name>>,
                        RecoveryRecord(rule_object, node_name, run.attempted, ~run.raised,
                                       t, w))
             fires == [w.fires EXCEPT ![<<rule_object.name, node_name, "recovery">>] = t]
         IN IF run.raised
            THEN [w |-> World(w.cd, run.nodes, w.status, log, fires), raised |-> TRUE]
            ELSE [w |-> World(Recovery_set_cooldown(w.cd, t, RecoveryName(rule_object.name),
                                                    node_name),
                              run.nodes,
                              Recovery_update_rule_recovery_status(w.status, rule_object.name,
                                                                   node_name),
                              log, fires),
                  raised |-> FALSE]

\* the loop of check_rule_recovery over the matching nodes; an exception leaves
\* the loop (it is caught at the end of check_rule_recovery)
RECURSIVE Recovery_check_nodes(_, _, _, _, _, _)
Recovery_check_nodes(w, rule_object, matching_nodes, t, mets, fault) ==
    IF matching_nodes = <<>> THEN w
    ELSE LET n == Head(matching_nodes) IN
         IF ~Recovery_check_node_recovery(rule_object, n, w.cd, t, w.nodes, MetOf(mets, n))
         THEN Recovery_check_nodes(w, rule_object, Tail(matching_nodes), t, mets, fault)
         ELSE LET done == Recovery_execute_recovery_actions(w, rule_object, n, t, fault) IN
              IF done.raised THEN done.w
              ELSE Recovery_check_nodes(done.w, rule_object, Tail(matching_nodes), t, mets,
                                        fault)

\* RecoveryManager.check_rule_recovery
Recovery_check_rule_recovery(w, rule_object, t, mets, fault) ==
    IF ~rule_object.enabled THEN w
    ELSE IF rule_object.recoveryConditions = <<>> THEN w
    ELSE Recovery_check_nodes(w, rule_object,
            Controller_get_matching_nodes(rule_object.nodeSelector, w.nodes), t, mets, fault)

\* RecoveryManager.check_recovery_conditions over the mirror files in glob order
RECURSIVE Recovery_check_recovery_conditions(_, _, _, _, _, _)
Recovery_check_recovery_conditions(w, order, rules, t, mets, fault) ==
    IF order = <<>> THEN w
    ELSE Recovery_check_recovery_conditions(
            Recovery_check_rule_recovery(w, rules[Head(order)], t, mets, fault),
            Tail(order), rules, t, mets, fault)

\* NodeGuardianController.handle_rules_synchronization: every object of the
\* snapshot is registered when enabled and unregistered otherwise, in the
\* snapshot's order.  [rules, cd, status]
RECURSIVE Controller_handle_rules_synchronization(_, _, _, _, _)
Controller_handle_rules_synchronization(rules, cd, st, objects, t) ==
    IF objects = <<>> THEN [rules |-> rules, cd |-> cd, status |-> st]
    ELSE LET rule_object == Head(objects)
             h == IF rule_object.enabled
                  THEN LET reg == Controller_register_rule(rules, st, rule_object, t) IN
                       [rules |-> reg.rules, cd |-> cd, status |-> reg.status]
                  ELSE Controller_unregister_rule(rules, cd, st, rule_object.name, t)
         IN Controller_handle_rules_synchronization(h.rules, h.cd, h.status, Tail(objects), t)

-----------------------------------------------------------------------------
(* Eviction *)

Pod(ns, name) == [namespace |-> ns, name |-> name]
DefaultExcludedNamespaces == <<"kube-system", "kube-public">>

\* KubernetesClient.get_pods_on_node: the pods the platform lists for the node,
\* in the platform's order, without those of `exclude_namespaces or [defaults]`
KubernetesClient_get_pods_on_node(listing, exclude_namespaces) ==
    LET exclude_ns == IF exclude_namespaces = <<>> THEN DefaultExcludedNamespaces
                      ELSE exclude_namespaces
    IN SelectSeq(listing, LAMBDA pod : pod.namespace \notin Range(exclude_ns))

\* RuleEngine._execute_evict_action on one node: the pods delete_pod is called
\* for, pods[:max_pods]
RuleEngine_execute_evict_action(listing, max_pods, exclude_namespaces) ==
    LET pods == KubernetesClient_get_pods_on_node(listing, exclude_namespaces) IN
    SubSeq(pods, 1, IF max_pods < Len(pods) THEN max_pods ELSE Len(pods))

\* NodeGuardianController.execute_evict_action on one node: the loop over the
\* items of `kubectl get pods`, the pods `kubectl delete pod` is run for
RECURSIVE Controller_execute_evict_action(_, _, _, _)
Controller_execute_evict_action(items, max_pods, exclude_namespaces, evicted) ==
    IF items = <<>> \/ Len(evicted) >= max_pods THEN evicted
    ELSE Controller_execute_evict_action(
            Tail(items), max_pods, exclude_namespaces,
            IF Head(items).namespace \notin Range(exclude_namespaces)
            THEN Append(evicted, Head(items)) ELSE evicted)

-----------------------------------------------------------------------------
(* Alert dispatch: the two AlertManager classes *)

\* library, AlertManager.send_alert: "Use template channels if no channels specified"
LibAlertManager_channels(channels, template_channels) ==
    IF channels = <<>> THEN template_channels ELSE channels

\* library, the loop of AlertManager.send_alert: each channel under try / except
\* Exception; the channels whose sender was called
RECURSIVE LibAlertManager_send_to_each(_, _, _, _)
LibAlertManager_send_to_each(channels, i, fault, attempted) ==
    IF i > Len(channels) THEN attempted
    ELSE LibAlertManager_send_to_each(
            channels, i + 1, fault,
            IF channels[i] \in {"email", "slack", "webhook"}
            THEN Append(attempted, channels[i]) ELSE attempted)

\* library, AlertManager.send_alert with a template that loads and renders
LibAlertManager_send_alert(channels, template_channels, fault) ==
    LibAlertManager_send_to_each(LibAlertManager_channels(channels, template_channels),
                                 1, fault, <<>>)

\* script, AlertManager.send_to_channels: channels + template_channels without
\* the repetitions, and of these the enabled ones
RECURSIVE ScriptAlertManager_unique_channels(_, _)
ScriptAlertManager_unique_channels(all_channels, unique_channels) ==
    IF all_channels = <<>> THEN unique_channels
    ELSE ScriptAlertManager_unique_channels(
            Tail(all_channels),
            IF Head(all_channels) \in Range(unique_channels) THEN unique_channels
            ELSE Append(unique_channels, Head(all_channels)))

\* script, the loop of send_to_channels over send_to_channel.  send_to_log has
\* nothing to fail; send_to_webhook catches requests.exceptions.RequestException
\* ("failed") and lets anything else through ("raised"); send_to_email catches
\* Exception; the loop has no handler.  The channels whose sender was called
RECURSIVE ScriptAlertManager_send_to_each(_, _, _, _)
ScriptAlertManager_send_to_each(channels, i, fault, attempted) ==
    IF i > Len(channels) THEN attempted
    ELSE IF ~channels[i].enabled
         THEN ScriptAlertManager_send_to_each(channels, i + 1, fault, attempted)
    ELSE IF channels[i].type \notin {"log", "webhook", "email"}
         THEN ScriptAlertManager_send_to_each(channels, i + 1, fault, attempted)
    ELSE IF channels[i].type = "webhook" /\ OutcomeOf(fault, i) = "raised"
         THEN Append(attempted, channels[i].type)
    ELSE ScriptAlertManager_send_to_each(channels, i + 1, fault,
                                         Append(attempted, channels[i].type))

\* script, AlertManager.send_to_channels
ScriptAlertManager_send_to_channels(channels, template_channels, fault) ==
    ScriptAlertManager_send_to_each(
        ScriptAlertManager_unique_channels(channels \o template_channels, <<>>),
        1, fault, <<>>)

(* Alert templates *)

\* a template is a sequence of pieces: literal text, or a placeholder naming a
\* path of the context ({{ a }} is <<"a">>, {{ a.b }} is <<"a", "b">>)
Text(s) == [kind |-> "text", text |-> s, path |-> <<>>]
Placeholder(path) == [kind |-> "placeholder", text |-> "", path |-> path]
\* what a rendered placeholder leaves in the output: the value found at the path
ValueOf(path) == [kind |-> "value", text |-> "", path |-> path]

\* library, AlertManager._prepare_context: the names the template can use
\* (all of them strings or lists, none with attributes of its own)
LibAlertManager_prepare_context ==
    {"rule_name", "rule_description", "timestamp", "triggered_nodes"}

\* jinja2.Template(...).render with the default Undefined: an undefined name
\* prints as the empty string, an attribute that a defined value does not have is
\* undefined too, and an attribute OF an undefined name raises UndefinedError
Jinja_raises(piece) ==
    /\ piece.kind = "placeholder"
    /\ piece.path[1] \notin LibAlertManager_prepare_context
    /\ Len(piece.path) > 1

Jinja_render_piece(piece) ==
    IF piece.kind = "text" THEN <<piece>>
    ELSE IF piece.path[1] \in LibAlertManager_prepare_context /\ Len(piece.path) = 1
         THEN <<ValueOf(piece.path)>>
    ELSE <<>>

RECURSIVE Jinja_render(_)
Jinja_render(template) ==
    IF template = <<>> THEN <<>>
    ELSE Jinja_render_piece(Head(template)) \o Jinja_render(Tail(template))

\* library, AlertManager.send_alert from "Render templates" on: a rendering that
\* raises is logged and the method returns before the loop over the channels
LibAlertManager_render_and_send(subject_template, body_template, channels) ==
    IF \E i \in DOMAIN subject_template : Jinja_raises(subject_template[i])
       THEN [rendered |-> FALSE, subject |-> <<>>, body |-> <<>>, attempted |-> <<>>]
    ELSE IF \E i \in DOMAIN body_template : Jinja_raises(body_template[i])
       THEN [rendered |-> FALSE, subject |-> <<>>, body |-> <<>>, attempted |-> <<>>]
    ELSE [rendered |-> TRUE,
          subject |-> Jinja_render(subject_template),
          body |-> Jinja_render(body_template),
          attempted |-> LibAlertManager_send_to_each(channels, 1, [i \in 1..2 |-> "ok"], <<>>)]

\* script, str.replace of the placeholders in `known`: every other piece of the
\* text, placeholders included, stays as it is written
RECURSIVE Script_replace(_, _)
Script_replace(template, known) ==
    IF template = <<>> THEN <<>>
    ELSE (IF Head(template).kind = "placeholder" /\ Head(template).path \in known
          THEN <<ValueOf(Head(template).path)>> ELSE <<Head(template)>>)
         \o Script_replace(Tail(template), known)

\* script, AlertManager.render_alert_content: {{.ruleName}} is replaced in the
\* title, the summary and the description, {{.triggeredNodes}} in the
\* description only
ScriptAlertManager_render_alert_content(title, summary, description) ==
    [title |-> Script_replace(title, {<<"ruleName">>}),
     summary |-> Script_replace(summary, {<<"ruleName">>}),
     description |-> Script_replace(description, {<<"ruleName">>, <<"triggeredNodes">>})]

(* The node-usage API: quantities and their units *)

\* a quantity as the API writes it: digits and a unit suffix ("1500m", "2", "4Gi")
Quantity(n, unit) == [n |-> n, unit |-> unit]

\* MetricsCollector._parse_cpu_value, in millicores (the figures used are whole
\* millicores): "m" is 1/1000, "n" 1/10^9, no suffix is cores; float() of
\* anything else raises ValueError (Fail)
MetricsCollector_parse_cpu_value_reading_m_as_n(value) ==
    CASE value.unit = "m" -> value.n \div 1000000
      [] value.unit = "n" -> value.n \div 1000000
      [] value.unit = "" -> value.n * 1000
      [] OTHER -> Fail

MetricsCollector_parse_cpu_value(value) ==
    CASE value.unit = "m" -> value.n
      [] value.unit = "n" -> value.n \div 1000000
      [] value.unit = "" -> value.n * 1000
      [] OTHER -> Fail

\* MetricsCollector._parse_memory_value, in GiB (the figures used are whole GiB):
\* Ki, Mi, Gi, Ti are powers of 1024, no suffix is bytes; int() of anything else
\* raises ValueError (Fail)
MetricsCollector_parse_memory_value(value) ==
    CASE value.unit = "Ki" -> value.n \div (1024 * 1024)
      [] value.unit = "Mi" -> value.n \div 1024
      [] value.unit = "Gi" -> value.n
      [] value.unit = "Ti" -> value.n * 1024
      [] value.unit = "" -> value.n \div (1024 * 1024 * 1024)
      [] OTHER -> Fail

\* (usage / capacity) * 100 in the unit of the metric values, 0.0 for no capacity
MetricsServer_percentage(usage, capacity) ==
    IF usage = Fail \/ capacity = Fail THEN Fail
    ELSE IF capacity > 0 THEN (usage * 100 * 2000) \div capacity
    ELSE 0

\* what _get_cpu_utilization_from_metrics_server computes from the answer of the
\* node-usage API (ok: the request succeeded): Fail when the request fails or a
\* quantity does not parse (the exception its handler turns into 0.0)
MetricsServer_cpu(response) ==
    IF ~response.ok THEN Fail
    ELSE MetricsServer_percentage(MetricsCollector_parse_cpu_value(response.usage),
                                  MetricsCollector_parse_cpu_value(response.capacity))

MetricsServer_memory(response) ==
    IF ~response.ok THEN Fail
    ELSE MetricsServer_percentage(MetricsCollector_parse_memory_value(response.usage),
                                  MetricsCollector_parse_memory_value(response.capacity))

(* A tick in which one step fails for one rule *)

\* The step of a rule's evaluation that fails during a tick, and how: "failed"
\* is the failure the platform client reports (ApiException, CalledProcessError),
\* "raised" any other exception (a connection error, an OSError of the file system)
Failure(rule_name, step, outcome) == [rule |-> rule_name, step |-> step, outcome |-> outcome]
FailureSteps == {"mirror", "nodes", "actions", "cooldown", "status"}

\* library, RuleEngine.evaluate_all_rules when `failure` strikes.  Only
\* load_rule_from_file, the action loop and the ApiException handlers of the
\* platform client catch anything: an exception of get_nodes other than
\* ApiException, of set_cooldown, or of update_rule_status other than
\* ApiException leaves evaluate_all_rules, and the files after it are not read
RECURSIVE RuleEngine_evaluate_all_rules_with(_, _, _, _, _, _)
RuleEngine_evaluate_all_rules_with(w, order, rules, t, mets, failure) ==
    IF order = <<>> THEN w
    ELSE IF failure.rule # Head(order)
         THEN LET rule == RuleEngine_load_rule(rules[Head(order)])
                  triggered_nodes == RuleEngine_evaluate_rule(rule, w.cd, t, w.nodes, mets)
              IN RuleEngine_evaluate_all_rules_with(
                    RuleEngine_execute_actions(w, rule, triggered_nodes, t, <<>>),
                    Tail(order), rules, t, mets, failure)
    ELSE LET rule == RuleEngine_load_rule(rules[Head(order)])
             triggered_nodes == RuleEngine_evaluate_rule(rule, w.cd, t, w.nodes, mets)
             acted == RuleEngine_run_actions(w.nodes, rule.actions, 1, triggered_nodes, <<>>)
             fires == AddFires(w.fires, rule.name, triggered_nodes, t)
             log(marked) ==
                Put(w.log, rule.name,
                    Batch("library", rule, triggered_nodes,
                          [i \in 1..Len(rule.actions) |-> i], marked, t, w.fires, w.cd))
             rest(after) ==
                RuleEngine_evaluate_all_rules_with(after, Tail(order), rules, t, mets, failure)
         IN CASE failure.step = "mirror" -> rest(w)
              [] failure.step = "nodes" ->
                    IF rule.nodeSelector.hasNodeNames \/ ~rule.enabled
                    THEN rest(RuleEngine_execute_actions(w, rule, triggered_nodes, t, <<>>))
                    ELSE IF failure.outcome = "failed" THEN rest(w) ELSE w
              [] failure.step = "actions" ->
                    rest(RuleEngine_execute_actions(w, rule, triggered_nodes, t,
                                                    [i \in 1..2 |-> failure.outcome]))
              [] failure.step = "cooldown" ->
                    IF triggered_nodes = <<>> THEN rest(w)
                    ELSE World(w.cd, acted, w.status, log(FALSE), fires)
              [] failure.step = "status" ->
                    IF triggered_nodes = <<>> THEN rest(w)
                    ELSE LET after ==
                               World(RuleEngine_set_cooldowns(w.cd, t, rule.name, triggered_nodes),
                                     acted, w.status, log(TRUE), fires)
                         IN IF failure.outcome = "failed" THEN rest(after) ELSE after

\* script, NodeGuardianController.evaluate_all_rules when `failure` strikes:
\* evaluate_rule runs each file under try / except Exception, so whatever is
\* raised ends only the evaluation of that file
RECURSIVE Controller_evaluate_all_rules_with(_, _, _, _, _, _)
Controller_evaluate_all_rules_with(w, order, rules, t, mets, failure) ==
    IF order = <<>> THEN w
    ELSE IF failure.rule # Head(order)
         THEN Controller_evaluate_all_rules_with(
                Controller_evaluate_rule(w, rules[Head(order)], t, mets, <<>>),
                Tail(order), rules, t, mets, failure)
    ELSE LET rule_object == rules[Head(order)]
             triggered_nodes ==
                SelectSeq(Controller_get_matching_nodes(rule_object.nodeSelector, w.nodes),
                    LAMBDA n : Controller_evaluate_node_for_rule(rule_object, n, w.cd, t,
                                                                 MetOf(mets, n)))
             fired == Controller_execute_rule_actions(w, rule_object, triggered_nodes, t, <<>>)
             rest(after) ==
                Controller_evaluate_all_rules_with(after, Tail(order), rules, t, mets, failure)
         IN CASE failure.step \in {"mirror", "nodes"} -> rest(w)
              [] failure.step = "actions" ->
                    rest(Controller_evaluate_rule(w, rule_object, t, mets,
                                                  [i \in 1..2 |-> failure.outcome]))
              [] failure.step = "cooldown" ->
                    IF ~rule_object.enabled \/ triggered_nodes = <<>> THEN rest(w)
                    ELSE rest(World(w.cd, fired.nodes, w.status,
                                    Put(w.log, rule_object.name,
                                        [fired.log[rule_object.name] EXCEPT !.marked = FALSE]),
                                    fired.fires))
              [] failure.step = "status" ->
                    IF ~rule_object.enabled \/ triggered_nodes = <<>> THEN rest(w)
                    ELSE rest(World(fired.cd, fired.nodes, w.status, fired.log, fired.fires))

-----------------------------------------------------------------------------
(* One fire: the evaluation of one rule and the execution of its batch *)

\* _execute_evict_action / execute_evict_action: the nodes whose pods are listed
\* and deleted, `for node_name in triggered_nodes` of every evict action started
Engine_evicted_from(actions, attempted, triggered_nodes) ==
    IF \E i \in Range(attempted) : actions[i].type = "evict"
    THEN Range(triggered_nodes) ELSE {}

\* what one fire leaves: the nodes, the batch and the nodes pods were evicted from
Fire(w, rule_name, actions) ==
    LET executed == rule_name \in DOMAIN w.log IN
    [nodes |-> w.nodes,
     batch |-> IF executed THEN w.log[rule_name].nodes ELSE <<>>,
     evicted |-> IF executed
                 THEN Engine_evicted_from(actions, w.log[rule_name].attempted,
                                          w.log[rule_name].nodes)
                 ELSE {}]

\* library, the body of the loop of evaluate_all_rules for one rule
RuleEngine_fire(w, rule, t, mets, fault) ==
    Fire(RuleEngine_execute_actions(
            w, rule, RuleEngine_evaluate_rule(rule, w.cd, t, w.nodes, mets), t, fault),
         rule.name, rule.actions)

\* script, evaluate_rule for one rule
Controller_fire(w, rule_object, t, mets, fault) ==
    Fire(Controller_evaluate_rule(w, rule_object, t, mets, fault),
         rule_object.name, rule_object.actions)

-----------------------------------------------------------------------------
(* One evaluation, the metric sources queried once per condition *)

\* evaluate_rule_conditions calls evaluate_condition for each condition, and
\* each call queries the sources again (get_node_metrics); answers[i] is what
\* the sources answer when condition i is evaluated
RuleEngine_evaluate_rule_conditions_querying(conditions, condition_logic, answers) ==
    LET satisfied_conditions ==
            Cardinality({i \in DOMAIN conditions :
                            RuleEngine_evaluate_condition(conditions[i], answers[i])})
    IN IF conditions = <<>> THEN FALSE
       ELSE IF condition_logic = "AND" THEN satisfied_conditions = Len(conditions)
            ELSE satisfied_conditions > 0

\* the loop of evaluate_node_for_rule: get_metric_value runs `kubectl top node`
\* for each condition
Controller_combine_querying(conditions, condition_logic, answers) ==
    LET satisfied_conditions ==
            Cardinality({i \in DOMAIN conditions :
                            Controller_condition_satisfied(conditions[i], answers[i])})
    IN IF condition_logic = "AND" THEN satisfied_conditions = Len(conditions)
       ELSE satisfied_conditions > 0

-----------------------------------------------------------------------------
(* One action on the nodes of a batch, the platform call failing for some *)

\* The loop `for node_name in triggered_nodes` of _execute_taint_action /
\* _execute_label_action / _execute_annotation_action.  The client's mutation
\* catches ApiException and returns False ("failed": the loop goes on, the
\* result is not looked at); any other exception of the call ("raised", e.g.
\* the connection error of an unreachable API server) leaves the loop and is
\* caught by the handler of execute_actions.  [nodes, visited]
RECURSIVE RuleEngine_apply_action_with(_, _, _, _, _)
RuleEngine_apply_action_with(nodeObjs, action, triggered_nodes, node_fault, visited) ==
    IF triggered_nodes = <<>> THEN [nodes |-> nodeObjs, visited |-> visited]
    ELSE LET n == Head(triggered_nodes) IN
         IF node_fault[n] = "raised"
         THEN [nodes |-> nodeObjs, visited |-> Append(visited, n)]
         ELSE RuleEngine_apply_action_with(
                IF node_fault[n] = "ok"
                THEN RuleEngine_apply_action(nodeObjs, action, <<n>>) ELSE nodeObjs,
                action, Tail(triggered_nodes), node_fault, Append(visited, n))

\* The loop of execute_taint_action / execute_label_action /
\* execute_annotation_action: the try / except CalledProcessError is inside the
\* loop ("failed": the next node is taken); any other exception of
\* subprocess.run ("raised") leaves the loop.  [nodes, visited]
RECURSIVE Controller_apply_action_with(_, _, _, _, _)
Controller_apply_action_with(nodeObjs, action, triggered_nodes, node_fault, visited) ==
    IF triggered_nodes = <<>> THEN [nodes |-> nodeObjs, visited |-> visited]
    ELSE LET n == Head(triggered_nodes) IN
         IF node_fault[n] = "raised"
         THEN [nodes |-> nodeObjs, visited |-> Append(visited, n)]
         ELSE Controller_apply_action_with(
                IF node_fault[n] = "ok"
                THEN Controller_apply_action(nodeObjs, action, <<n>>) ELSE nodeObjs,
                action, Tail(triggered_nodes), node_fault, Append(visited, n))

-----------------------------------------------------------------------------
(* The cooldown ledger of the scripts, by (rule, node, phase) *)

\* The trigger path marks and checks (rule, node) under the rule's name
\* (nodeguardian_controller.py), the recovery path under f"{rule_name}_recovery"
\* (recovery_manager.py); both in the one directory /tmp/nodeguardian/cooldown
Ledger_mark(cd, t, rule_name, node_name, phase) ==
    IF phase = "trigger" THEN Controller_set_cooldown(cd, t, rule_name, node_name)
    ELSE Recovery_set_cooldown(cd, t, RecoveryName(rule_name), node_name)

Ledger_check(cd, t, rule_name, node_name, phase, period) ==
    IF phase = "trigger" THEN Controller_check_cooldown(cd, t, rule_name, node_name, period)
    ELSE Recovery_check_cooldown(cd, t, RecoveryName(rule_name), node_name, period)

-----------------------------------------------------------------------------
(* The state machine *)

Orders(S) == {s \in [1..Cardinality(S) -> S] : Range(s) = S}

InitNodes ==
    [n \in NodeNames |->
        NodeObj([k \in {"role"} |-> "worker"], <<>>, EmptyMap)]

NoCall == [fn |-> "none"]

FireKeys == (RuleNames \X NodeNames) \cup (RuleNames \X NodeNames \X {"recovery"})

InitSystem ==
    /\ now = 0
    /\ rules_dir = EmptyMap
    /\ cooldown_dir = EmptyMap
    /\ nodes = InitNodes
    /\ status = [r \in RuleNames |-> NoStatus]
    /\ metrics \in [NodeNames -> {EnvHot, EnvCool}]
    /\ tickLog = EmptyMap
    /\ recoveryLog = EmptyMap
    /\ fireTimes = [k \in FireKeys |-> None]
    /\ lastEvent = [r \in RuleNames |-> "none"]

Init == InitSystem /\ call = NoCall /\ ret = <<>>

ForgetFires(f, rule_name) ==
    [k \in DOMAIN f |-> IF k[1] = rule_name THEN None ELSE f[k]]

\* time passes
Advance ==
    /\ now < MaxTime
    /\ now' = now + 1
    /\ tickLog' = EmptyMap
    /\ recoveryLog' = EmptyMap
    /\ UNCHANGED <<rules_dir, cooldown_dir, nodes, status, metrics, fireTimes,
                   lastEvent, call, ret>>

\* the load of a node changes
MetricsChange ==
    \E n \in NodeNames, e \in {EnvHot, EnvCool} :
        /\ metrics[n] # e
        /\ metrics' = [metrics EXCEPT ![n] = e]
        /\ tickLog' = EmptyMap
        /\ recoveryLog' = EmptyMap
        /\ UNCHANGED <<now, rules_dir, cooldown_dir, nodes, status, fireTimes,
                       lastEvent, call, ret>>

\* library: a rule object of the platform is loaded and saved to the mirror
LibSaveRule ==
    \E rule_data \in LibCatalog :
        /\ rules_dir' = RuleEngine_save_rule(rules_dir, RuleEngine_load_rule(rule_data))
        /\ status' = [status EXCEPT ![rule_data.name].exists = TRUE]
        /\ fireTimes' = ForgetFires(fireTimes, rule_data.name)
        /\ lastEvent' = [lastEvent EXCEPT ![rule_data.name] =
                            IF rule_data.enabled THEN "enabled" ELSE "disabled"]
        /\ tickLog' = EmptyMap
        /\ recoveryLog' = EmptyMap
        /\ UNCHANGED <<now, cooldown_dir, nodes, metrics, call, ret>>

\* library: RuleEngine.delete_rule
LibDeleteRule ==
    \E rule_name \in RuleNames :
        /\ rules_dir' = RuleEngine_delete_rule_files(rules_dir, rule_name)
        /\ cooldown_dir' = RuleEngine_delete_rule_cooldowns(cooldown_dir, rule_name)
        /\ fireTimes' = ForgetFires(fireTimes, rule_name)
        /\ lastEvent' = [lastEvent EXCEPT ![rule_name] = "Deleted"]
        /\ tickLog' = EmptyMap
        /\ recoveryLog' = EmptyMap
        /\ UNCHANGED <<now, nodes, status, metrics, call, ret>>

\* library: one trigger tick, RuleEngine.evaluate_all_rules
LibTick ==
    \E order \in Orders(DOMAIN rules_dir), fault \in Faults :
        \E w \in {RuleEngine_evaluate_all_rules(
                    World(cooldown_dir, nodes, status, EmptyMap, fireTimes),
                    order, rules_dir, now, metrics, fault)} :
           /\ cooldown_dir' = w.cd
           /\ nodes' = w.nodes
           /\ status' = w.status
           /\ tickLog' = w.log
           /\ recoveryLog' = EmptyMap
           /\ fireTimes' = w.fires
           /\ UNCHANGED <<now, rules_dir, metrics, lastEvent, call, ret>>

\* script: the watch delivers Added / Modified for a rule object
RuleEvent ==
    \E watch_event \in {"Added", "Modified"}, rule_object \in ScriptCatalog :
        /\ status[rule_object.name].exists <=> watch_event = "Modified"
        /\ LET st == [status EXCEPT ![rule_object.name].exists = TRUE]
               h == Controller_handle_rule_event(rules_dir, cooldown_dir, st, watch_event,
                                                 rule_object, now)
           IN /\ rules_dir' = h.rules
              /\ cooldown_dir' = h.cd
              /\ status' = h.status
        /\ fireTimes' = ForgetFires(fireTimes, rule_object.name)
        /\ lastEvent' = [lastEvent EXCEPT ![rule_object.name] =
                            IF rule_object.enabled THEN "enabled" ELSE "disabled"]
        /\ tickLog' = EmptyMap
        /\ recoveryLog' = EmptyMap
        /\ UNCHANGED <<now, nodes, metrics, call, ret>>

\* script: the watch delivers Deleted for a rule object
RuleDeleted ==
    \E rule_object \in ScriptCatalog :
        /\ status[rule_object.name].exists
        /\ LET st == [status EXCEPT ![rule_object.name] = NoStatus]
               h == Controller_handle_rule_event(rules_dir, cooldown_dir, st, "Deleted",
                                                 rule_object, now)
           IN /\ rules_dir' = h.rules
              /\ cooldown_dir' = h.cd
              /\ status' = h.status
        /\ fireTimes' = ForgetFires(fireTimes, rule_object.name)
        /\ lastEvent' = [lastEvent EXCEPT ![rule_object.name] = "Deleted"]
        /\ tickLog' = EmptyMap
        /\ recoveryLog' = EmptyMap
        /\ UNCHANGED <<now, nodes, metrics, call, ret>>

\* script: one trigger tick, NodeGuardianController.evaluate_all_rules
ScriptTick ==
    \E order \in Orders(DOMAIN rules_dir), fault \in Faults :
        \E w \in {Controller_evaluate_all_rules(
                    World(cooldown_dir, nodes, status, EmptyMap, fireTimes),
                    order, rules_dir, now, metrics, fault)} :
           /\ cooldown_dir' = w.cd
           /\ nodes' = w.nodes
           /\ status' = w.status
           /\ tickLog' = w.log
           /\ recoveryLog' = EmptyMap
           /\ fireTimes' = w.fires
           /\ UNCHANGED <<now, rules_dir, metrics, lastEvent, call, ret>>

\* the script controller with its watch events and trigger ticks
Next == RuleEvent \/ RuleDeleted \/ ScriptTick \/ Advance \/ MetricsChange
Spec == Init /\ [][Next]_vars

\* the library engine with its rule store and trigger ticks
NextLib == LibSaveRule \/ LibDeleteRule \/ LibTick \/ Advance \/ MetricsChange
SpecLib == Init /\ [][NextLib]_vars

\* script: the watch delivers an event for a rule object of the recovery scenarios
WatchEvent(watch_event, rule_object) ==
    /\ IF watch_event = "Added" THEN ~status[rule_object.name].exists
       ELSE status[rule_object.name].exists
    /\ LET st == [status EXCEPT ![rule_object.name] =
                    IF watch_event = "Deleted" THEN NoStatus ELSE [@ EXCEPT !.exists = TRUE]]
           h == Controller_handle_rule_event(rules_dir, cooldown_dir, st, watch_event,
                                             rule_object, now)
       IN /\ rules_dir' = h.rules
          /\ cooldown_dir' = h.cd
          /\ status' = h.status
    /\ fireTimes' = ForgetFires(fireTimes, rule_object.name)
    /\ lastEvent' = [lastEvent EXCEPT ![rule_object.name] =
                        IF watch_event = "Deleted" THEN "Deleted"
                        ELSE IF rule_object.enabled THEN "enabled" ELSE "disabled"]
    /\ tickLog' = EmptyMap
    /\ recoveryLog' = EmptyMap
    /\ UNCHANGED <<now, nodes, metrics, call, ret>>

RecoveryRuleEvent ==
    \E watch_event \in {"Added", "Modified"}, rule_object \in RecoveryCatalog :
        WatchEvent(watch_event, rule_object)

RecoveryRuleDeleted ==
    \E rule_object \in RecoveryCatalog : WatchEvent("Deleted", rule_object)

\* the snapshots a watch can start with: at most one object per rule name
Snapshots == {S \in SUBSET ScriptCatalog : \A a, b \in S : a.name = b.name => a = b}

\* script: the watch (re)starts and delivers Synchronization with the rule
\* objects the platform holds now
RulesSynchronization ==
    \E snapshot \in Snapshots :
        LET names == {o.name : o \in snapshot}
            st == [r \in RuleNames |->
                    IF r \in names THEN [status[r] EXCEPT !.exists = TRUE] ELSE NoStatus]
        IN \E h \in {Controller_handle_rules_synchronization(
                        rules_dir, cooldown_dir, st, SeqOfSet(snapshot), now)} :
            /\ rules_dir' = h.rules
            /\ cooldown_dir' = h.cd
            /\ status' = h.status
            /\ fireTimes' = [k \in DOMAIN fireTimes |-> None]
            /\ lastEvent' = [r \in RuleNames |->
                                IF r \notin names THEN "unseen"
                                ELSE IF \E o \in snapshot : o.name = r /\ o.enabled
                                     THEN "enabled" ELSE "disabled"]
            /\ tickLog' = EmptyMap
            /\ recoveryLog' = EmptyMap
            /\ UNCHANGED <<now, nodes, metrics, call, ret>>

\* script: one recovery tick, RecoveryManager.check_recovery_conditions
RecoveryTick ==
    \E order \in Orders(DOMAIN rules_dir), fault \in Faults :
        \E w \in {Recovery_check_recovery_conditions(
                    World(cooldown_dir, nodes, status, EmptyMap, fireTimes),
                    order, rules_dir, now, metrics, fault)} :
           /\ cooldown_dir' = w.cd
           /\ nodes' = w.nodes
           /\ status' = w.status
           /\ recoveryLog' = w.log
           /\ tickLog' = EmptyMap
           /\ fireTimes' = w.fires
           /\ UNCHANGED <<now, rules_dir, metrics, lastEvent, call, ret>>

\* the script controller and the recovery driver over the same directories,
\* within one second (every period of the recovery scenarios is one second)
NextRecovery ==
    \/ RecoveryRuleEvent
    \/ RecoveryRuleDeleted
    \/ ScriptTick
    \/ RecoveryTick
    \/ MetricsChange
SpecRecovery == Init /\ [][NextRecovery]_vars

\* the script controller with its watch: events and (re)starts
NextSync == RuleEvent \/ RuleDeleted \/ RulesSynchronization \/ MetricsChange
SpecSync == Init /\ [][NextSync]_vars

\* ---- trigger evaluations in progress at the same time ----
\* One run of NodeGuardianController.evaluate_rule is a sequence of steps, one
\* per file operation or kubectl call: the rule file is read and the nodes are
\* listed, each matching node is evaluated (check_cooldown reads the cooldown
\* file), each action is executed on the triggered nodes, the cooldown file of
\* each triggered node is touched, the status is patched.  Nothing in the
\* controller takes a lock or tests-and-sets the cooldown file, so the steps of
\* two runs (two hook processes over the same directories) may interleave in
\* any order.  A run works on the rule object it has read from the mirror.
Runs == {1, 2}
OverlapRule == CHOOSE r \in ScriptCatalog : r.name = RA /\ r.enabled
IdleRun ==
    [pc |-> "idle", rule_object |-> OverlapRule, matching |-> <<>>, triggered |-> <<>>,
     i |-> 1, marking |-> <<>>, acted |-> [n \in NodeNames |-> None]]

InitOverlap ==
    /\ now = 0
    /\ rules_dir = Controller_register_rule(EmptyMap, [r \in RuleNames |-> NoStatus],
                                            OverlapRule, 0).rules
    /\ cooldown_dir = EmptyMap
    /\ nodes = InitNodes
    /\ status = [[r \in RuleNames |-> NoStatus] EXCEPT ![RA].exists = TRUE]
    /\ metrics \in [NodeNames -> {EnvHot, EnvCool}]
    /\ tickLog = EmptyMap
    /\ recoveryLog = EmptyMap
    /\ fireTimes = [k \in FireKeys |-> None]
    /\ lastEvent = [r \in RuleNames |-> "none"]
    /\ call = [fn |-> "overlapping evaluate_rule", runs |-> [p \in Runs |-> IdleRun]]
    /\ ret = <<>>

RunStep(p, run) ==
    /\ call' = [call EXCEPT !.runs[p] = run]
    /\ UNCHANGED <<now, rules_dir, metrics, tickLog, fireTimes, lastEvent, recoveryLog, ret>>

\* evaluate_rule up to get_matching_nodes
RunStart ==
    \E p \in Runs :
        LET run == call.runs[p]
            rule_object == rules_dir[RA]
            matching_nodes == Controller_get_matching_nodes(rule_object.nodeSelector, nodes)
        IN /\ run.pc = "idle"
           /\ RA \in DOMAIN rules_dir
           /\ rule_object.enabled
           /\ matching_nodes # <<>>
           /\ RunStep(p, [run EXCEPT !.pc = "evaluate", !.rule_object = rule_object,
                                     !.matching = matching_nodes, !.triggered = <<>>])
           /\ UNCHANGED <<cooldown_dir, nodes, status>>

\* one pass of `for node_name in matching_nodes`: evaluate_node_for_rule
RunEvaluateNode ==
    \E p \in Runs :
        LET run == call.runs[p]
            n == Head(run.matching)
            triggered_nodes ==
                IF Controller_evaluate_node_for_rule(run.rule_object, n, cooldown_dir, now,
                                                     MetOf(metrics, n))
                THEN Append(run.triggered, n) ELSE run.triggered
        IN /\ run.pc = "evaluate"
           /\ RunStep(p, [run EXCEPT
                    !.matching = Tail(@), !.triggered = triggered_nodes, !.i = 1,
                    !.pc = IF Tail(run.matching) # <<>> THEN "evaluate"
                           ELSE IF triggered_nodes = <<>> THEN "idle" ELSE "execute"])
           /\ UNCHANGED <<cooldown_dir, nodes, status>>

\* one pass of `for action in actions` of execute_rule_actions
RunExecuteAction ==
    \E p \in Runs :
        LET run == call.runs[p]
            actions == run.rule_object.actions
        IN /\ run.pc = "execute"
           /\ nodes' = Controller_apply_action(nodes, actions[run.i], run.triggered)
           /\ RunStep(p, [run EXCEPT
                    !.i = @ + 1,
                    !.acted = [n \in NodeNames |->
                                IF n \in Range(run.triggered) THEN now ELSE @[n]],
                    !.pc = IF run.i < Len(actions) THEN "execute" ELSE "mark",
                    !.marking = run.triggered])
           /\ UNCHANGED <<cooldown_dir, status>>

\* one pass of `for node_name in triggered_nodes: self.set_cooldown(...)`
RunSetCooldown ==
    \E p \in Runs :
        LET run == call.runs[p] IN
        /\ run.pc = "mark"
        /\ cooldown_dir' = Controller_set_cooldown(cooldown_dir, now, RA, Head(run.marking))
        /\ RunStep(p, [run EXCEPT !.marking = Tail(@),
                                  !.pc = IF Tail(run.marking) # <<>> THEN "mark"
                                         ELSE "status"])
        /\ UNCHANGED <<nodes, status>>

\* update_rule_status at the end of evaluate_rule
RunUpdateStatus ==
    \E p \in Runs :
        LET run == call.runs[p] IN
        /\ run.pc = "status"
        /\ status' = Controller_update_rule_status(status, RA, "Active", "Rule triggered",
                                                   run.triggered, now)
        /\ RunStep(p, [run EXCEPT !.pc = "idle"])
        /\ UNCHANGED <<cooldown_dir, nodes>>

\* the watch delivers Deleted, or Modified with enabled=false, for the rule
\* while runs are in progress: handle_rule_event, unregister_rule
WatchRemovesRule ==
    \E watch_event \in {"Deleted", "Modified"} :
        /\ call.fn = "overlapping evaluate_rule"
        /\ RA \in DOMAIN rules_dir
        /\ LET st == IF watch_event = "Deleted" THEN [status EXCEPT ![RA] = NoStatus]
                     ELSE status
               h == Controller_handle_rule_event(rules_dir, cooldown_dir, st, watch_event,
                                                 [OverlapRule EXCEPT !.enabled = FALSE], now)
           IN /\ rules_dir' = h.rules
              /\ cooldown_dir' = h.cd
              /\ status' = h.status
        /\ lastEvent' = [lastEvent EXCEPT ![RA] =
                            IF watch_event = "Deleted" THEN "Deleted" ELSE "disabled"]
        /\ UNCHANGED <<now, nodes, metrics, tickLog, fireTimes, recoveryLog, call, ret>>

\* the runs of evaluate_rule and the watch event that removes the rule
NextRemoval ==
    \/ RunStart
    \/ RunEvaluateNode
    \/ RunExecuteAction
    \/ RunSetCooldown
    \/ RunUpdateStatus
    \/ WatchRemovesRule
    \/ MetricsChange
SpecRemoval == InitOverlap /\ [][NextRemoval]_vars

\* ---- recovery under fair scheduling of the recovery ticks ----
\* The rule "hot" with recovery conditions and recovery actions, its trigger
\* actions declaring a taint key of their own, the label
\* nodeguardian.io/rule-triggered, or both; the recovery actions undo what the
\* trigger actions declare.
LiveCatalog ==
    { WithRecovery(RuleObj(RA, TRUE, FlatWorkers, <<CpuHighSym>>, "AND", d[1], Dur(1, "s")),
                   <<CpuLowSym>>, d[2], Dur(1, "s")) :
        d \in { <<<<Overload("NoSchedule")>>,
                  <<UntaintAct("k8s.io/overload", "1", "NoSchedule")>>>>,
                <<<<Mark>>, <<Unmark>>>>,
                <<<<Overload("NoSchedule"), Mark>>,
                  <<UntaintAct("k8s.io/overload", "1", "NoSchedule"), Unmark>>>> } }

\* the rule has been registered (an Added event)
InitLive ==
    /\ InitSystem
    /\ \E rule_object \in LiveCatalog :
        \E reg \in {Controller_register_rule(EmptyMap, [r \in RuleNames |->
                        IF r = rule_object.name THEN [NoStatus EXCEPT !.exists = TRUE]
                        ELSE NoStatus], rule_object, 0)} :
            /\ call = [fn |-> "recovery under fair ticks", rule |-> rule_object,
                       rules |-> reg.rules, status |-> reg.status]
    /\ ret = <<>>

\* the mirror and the status are those of the registration (InitSystem starts
\* with an empty mirror: the first step is the Added event taking effect)
LiveRegistered ==
    /\ call.fn = "recovery under fair ticks"
    /\ rules_dir = EmptyMap
    /\ rules_dir' = call.rules
    /\ status' = call.status
    /\ lastEvent' = [lastEvent EXCEPT ![call.rule.name] = "enabled"]
    /\ UNCHANGED <<now, cooldown_dir, nodes, metrics, tickLog, fireTimes, recoveryLog,
                   call, ret>>

\* one trigger tick, every platform call succeeding
LiveScriptTick ==
    /\ rules_dir # EmptyMap
    /\ \E order \in Orders(DOMAIN rules_dir) :
        \E w \in {Controller_evaluate_all_rules(
                    World(cooldown_dir, nodes, status, EmptyMap, fireTimes),
                    order, rules_dir, now, metrics, <<>>)} :
           /\ cooldown_dir' = w.cd
           /\ nodes' = w.nodes
           /\ status' = w.status
           /\ tickLog' = w.log
           /\ recoveryLog' = EmptyMap
           /\ fireTimes' = w.fires
           /\ UNCHANGED <<now, rules_dir, metrics, lastEvent, call, ret>>

\* one recovery tick, every platform call succeeding
LiveRecoveryTick ==
    /\ rules_dir # EmptyMap
    /\ \E order \in Orders(DOMAIN rules_dir) :
        \E w \in {Recovery_check_recovery_conditions(
                    World(cooldown_dir, nodes, status, EmptyMap, fireTimes),
                    order, rules_dir, now, metrics, <<>>)} :
           /\ cooldown_dir' = w.cd
           /\ nodes' = w.nodes
           /\ status' = w.status
           /\ recoveryLog' = w.log
           /\ tickLog' = EmptyMap
           /\ fireTimes' = w.fires
           /\ UNCHANGED <<now, rules_dir, metrics, lastEvent, call, ret>>

\* RecoveryManager.run calls check_recovery_conditions on every Schedule
\* event of the binding "recovery-check", which the operator delivers for as
\* long as it lives: a recovery tick that has work to do is eventually taken
\* (weak fairness), and so is the pending Added event.  Nothing is assumed of
\* the trigger ticks, the load or the clock.
NextLive == LiveRegistered \/ LiveScriptTick \/ LiveRecoveryTick \/ MetricsChange \/ Advance
SpecLive == InitLive /\ [][NextLive]_vars /\ WF_vars(LiveRegistered) /\ WF_vars(LiveRecoveryTick)

NextOverlap ==
    \/ RunStart
    \/ RunEvaluateNode
    \/ RunExecuteAction
    \/ RunSetCooldown
    \/ RunUpdateStatus
    \/ Advance
    \/ MetricsChange
SpecOverlap == InitOverlap /\ [][NextOverlap]_vars

-----------------------------------------------------------------------------
(* Single calls: one function of the evaluator applied to drawn inputs *)

\* metric values around the threshold 80.0, closer to it than the tolerance and not
Probes == {Pct(80) - 2, Pct(80) - 1, Pct(80), Pct(80) + 1, Pct(80) + 2, Pct(85), Pct(70)}
\* the time-series source answers v for the CPU metric
EnvAt(v) == MetricEnv(v, Pct(50), Pct(40), Pct(1), Fail, Fail, FALSE, Fail)
ProbeEnvs == {EnvAt(v) : v \in Probes} \cup {EnvDown}

CpuLow == Cond("cpuUtilizationPercent", "LessThan", Pct(50))
MemHighSym == Cond("memoryUtilizationPercent", ">", Pct(90))
CondSeqs(S) == {<<>>} \cup {<<a>> : a \in S} \cup {<<a, b>> : a \in S, b \in S}

NamesOverLabels == Selector(TRUE, <<W1>>, TRUE, <<<<"role", "db">>>>, <<>>)
TwoLabels == Selector(FALSE, <<>>, TRUE, <<<<"zone", "a">>, <<"role", "worker">>>>, <<>>)
Databases == Selector(FALSE, <<>>, TRUE, <<<<"role", "db">>>>, <<>>)
ProbeSelectors == {NoSelector, Workers, OnlyW1, NamesOverLabels, TwoLabels, Databases}
LabelMap(pairs) == DictUpdate(EmptyMap, pairs)
ProbeLabels == {LabelMap(<<<<"role", "worker">>>>), LabelMap(<<<<"role", "db">>>>),
                LabelMap(<<<<"role", "worker">>, <<"zone", "a">>>>)}
ProbeClusters ==
    {[n \in NodeNames |-> NodeObj(l[n], <<>>, EmptyMap)] : l \in [NodeNames -> ProbeLabels]}

Gaps == {0, 1, 59, 60, 299, 300, 3600}
Periods == {Dur(0, "s"), Dur(1, "s"), Dur(1, "m"), Dur(5, "m"), Dur(1, "h")}

\* one call of a method of KubernetesClient that changes a node
Mutation(op, k, v, e, pairs, keys) ==
    [op |-> op, key |-> k, value |-> v, effect |-> e, pairs |-> pairs, keys |-> keys]
ProbeMutations ==
    { Mutation("taint_node", "k8s.io/overload", "1", "NoSchedule", <<>>, <<>>),
      Mutation("taint_node", "k8s.io/overload", "1", "NoExecute", <<>>, <<>>),
      Mutation("remove_taint", "k8s.io/overload", "", "", <<>>, <<>>),
      Mutation("label_node", "", "", "", <<<<"role", "drained">>, <<"zone", "a">>>>, <<>>),
      Mutation("remove_labels", "", "", "", <<>>, <<"role", "zone">>),
      Mutation("annotate_node", "", "", "", <<<<"note", "hot">>>>, <<>>),
      Mutation("remove_annotations", "", "", "", <<>>, <<"note">>) }
ProbeNodes ==
    { NodeObj(l, t, a) :
        l \in {LabelMap(<<<<"role", "worker">>>>), EmptyMap},
        t \in {<<>>, <<Taint("k8s.io/overload", "1", "NoSchedule")>>,
               <<Taint("k8s.io/overload", "0", "NoSchedule")>>,
               <<Taint("dedicated", "gpu", "NoSchedule")>>},
        a \in {EmptyMap, LabelMap(<<<<"note", "cold">>>>)} }

\* pods of one node, the listings the platform can answer with, channel lists
ProbePods == {Pod("app", "api"), Pod("app", "batch"), Pod("kube-system", "dns"),
              Pod("web", "ui")}
ProbeListings == UNION {Orders(S) : S \in SUBSET ProbePods}
ProbeExclusions == {DefaultExcludedNamespaces, <<"web">>, <<>>}
ChannelTypes == {"email", "webhook", "log", "sms"}
ChannelLists ==
    {<<>>} \cup {<<a>> : a \in ChannelTypes}
           \cup {c \in {<<a, b>> : a \in ChannelTypes, b \in ChannelTypes} : c[1] # c[2]}
\* the channel objects {type, enabled} the script reads
ChannelRefs(types) == [i \in DOMAIN types |-> [type |-> types[i], enabled |-> TRUE]]
NoFault == [i \in 1..2 |-> "ok"]

\* a rule that taints, alerts and labels, and what can happen to its alert
AlertingRule ==
    RuleObj(RA, TRUE, FlatWorkers, <<CpuHighSym>>, "AND",
            <<Overload("NoSchedule"), OtherAct("alert"), Mark>>, Dur(1, "s"))
AlertFaults == {f \in [1..3 -> Outcomes] : f[1] = "ok" /\ f[3] = "ok"}

\* alert templates: text, defined placeholders, and undefined ones with and
\* without a dotted path
Templates(pieces) == {<<>>} \cup {<<a>> : a \in pieces} \cup {<<a, b>> : a \in pieces, b \in pieces}
LibPieces == {Text("Rule "), Placeholder(<<"rule_name">>), Placeholder(<<"owner">>),
              Placeholder(<<"owner", "name">>), Placeholder(<<"rule_name", "owner">>)}
ScriptPieces == {Text("Rule "), Placeholder(<<"ruleName">>), Placeholder(<<"triggeredNodes">>),
                 Placeholder(<<"owner">>), Placeholder(<<"owner", "name">>)}

\* answers of the node-usage API and of the time-series query
CpuQuantities == {Quantity(1500, "m"), Quantity(500000000, "n"), Quantity(2, ""),
                  Quantity(4, ""), Quantity(250, "u")}
MemoryQuantities == {Quantity(1048576, "Ki"), Quantity(2048, "Mi"), Quantity(3, "Gi"),
                     Quantity(1, "Ti"), Quantity(1073741824, ""), Quantity(4, "G")}
PrimaryAnswers == {Fail, Pct(60), 0}

\* durations of the grammar <int>[s|m|h|d], and times since the mark around them
Durations == {Dur(n, unit) : n \in {0, 1, 2}, unit \in {"s", "m", "h", "d"}}
DurationGaps == {0, 1, 2, 59, 60, 119, 120, 299, 300, 3599, 3600, 7199, 86399, 86400}

\* rule documents: a rule whose conditions and metadata are written out in full,
\* the rules of the catalog, and each of them without some of the optional keys
DescribedRule ==
    [name |-> RA, enabled |-> FALSE, nodeSelector |-> Workers,
     conditions |-> <<[metric |-> "cpuUtilizationPercent", operator |-> "GreaterThan",
                       value |-> Pct(80), duration |-> Dur(1, "m"),
                       description |-> "CPU usage too high"]>>,
     conditionLogic |-> "OR", actions |-> <<Overload("NoSchedule")>>,
     recoveryConditions |-> <<CpuLow>>, recoveryActions |-> <<>>,
     cooldownPeriod |-> Dur(5, "m"), checkInterval |-> Dur(60, "s"),
     description |-> "Test rule", priority |-> 100]
OptionalKeys == {"conditionLogic", "enabled", "cooldownPeriod", "recoveryConditions", "actions"}
RuleDocuments ==
    {Drop(d, K) : d \in LibCatalog \cup {DescribedRule}, K \in SUBSET OptionalKeys}

\* rules with an invalid spec: an operator outside the closed set, a metric
\* outside the closed set, a malformed cooldownPeriod; in each dialect
InvalidLibRules ==
    { RuleObj(RA, TRUE, Workers, conds, "OR", <<Mark>>, period) :
        conds \in {<<Cond("cpuUtilizationPercent", "Exceeds", Pct(80)), CpuHigh>>,
                   <<Cond("gpuTemperature", "LessThan", Pct(80))>>},
        period \in {Dur(1, "m")} }
    \cup {RuleObj(RA, TRUE, Workers, <<CpuHigh>>, "AND", <<Mark>>, Dur(1, "fortnight"))}
InvalidScriptRules ==
    { RuleObj(RA, TRUE, FlatWorkers, conds, "OR", <<Mark>>, period) :
        conds \in {<<Cond("cpuUtilizationPercent", "exceeds", Pct(80)), CpuHighSym>>,
                   <<Cond("gpuTemperature", "<", Pct(80))>>},
        period \in {Dur(1, "m")} }
    \cup {RuleObj(RA, TRUE, FlatWorkers, <<CpuHighSym>>, "AND", <<Mark>>, Dur(1, "fortnight"))}

\* the failures of one tick over two mirrored rules
ProbeFailures ==
    {Failure(r, step, outcome) : r \in RuleNames, step \in FailureSteps,
                                 outcome \in {"failed", "raised"}}

\* rules whose selector matches both workers, under OR, with every kind of
\* action on a node
Remediation ==
    <<Overload("NoSchedule"), Mark, AnnotationAct(<<<<"nodeguardian.io/reason", "cpu">>>>),
      OtherAct("evict")>>
LibFireRules ==
    {r \in LibCatalog : r.enabled}
    \cup {RuleObj(RA, TRUE, Workers, <<CpuHigh, MemHigh>>, "OR", Remediation, Dur(1, "m"))}
ScriptFireRules ==
    {r \in ScriptCatalog : r.enabled}
    \cup {RuleObj(RA, TRUE, FlatWorkers, <<CpuHighSym, MemHighSym>>, "OR", Remediation,
                  Dur(1, "s"))}
\* the cooldown directory with the rule's entry of each node: none, or time 0
FireEntries == [NodeNames -> {None, 0}]
CooldownDir(rule_name, entries) ==
    [k \in {CooldownFile(rule_name, n) : n \in {m \in NodeNames : entries[m] # None}} |-> 0]

\* the triples of the ledger; "hot-b" is a rule name without an underscore
Triples == (RuleNames \cup {<<"hot-b">>}) \X NodeNames \X {"trigger", "recovery"}

\* the method of KubernetesClient a mutation names
KubernetesClient_call(n, m) ==
    CASE m.op = "taint_node" -> KubernetesClient_taint_node(n, m.key, m.value, m.effect)
      [] m.op = "remove_taint" -> KubernetesClient_remove_taint(n, m.key)
      [] m.op = "label_node" -> KubernetesClient_label_node(n, m.pairs)
      [] m.op = "remove_labels" -> KubernetesClient_remove_labels(n, m.keys)
      [] m.op = "annotate_node" -> KubernetesClient_annotate_node(n, m.pairs)
      [] m.op = "remove_annotations" -> KubernetesClient_remove_annotations(n, m.keys)

\* ---- a mirror file read while it is written ----
\* register_rule and save_rule write <name>.json, and the library's set_cooldown
\* writes <rule>_<node>, with `with open(file, 'w') as f:`: open truncates the
\* file in place, the text reaches the file at the flushes of the buffer (one
\* at the latest when the `with` block closes it), and no temporary file is
\* written and renamed.  A file is the sequence of the pieces of text in it.
JsonDump(document) == <<"{", document, "}">>
\* json.load: the document of a complete text; <<>> stands for JSONDecodeError
JsonLoad(text) ==
    IF Len(text) = 3 /\ text[1] = "{" /\ text[3] = "}" THEN <<text[2]>> ELSE <<>>
\* str(time.time()) and float(f.read().strip()); <<>> stands for ValueError
StrTime(t) == <<t>>
FloatOf(text) == IF Len(text) = 1 THEN <<text[1]>> ELSE <<>>

\* the texts the three writers write
WrittenText(kind, value) == IF kind = "set_cooldown" THEN StrTime(value) ELSE JsonDump(value)
WriteKinds == {"register_rule", "save_rule", "set_cooldown"}
WriteValues(kind) ==
    CASE kind = "register_rule" -> ScriptCatalog
      [] kind = "save_rule" -> {RuleEngine_rule_data(RuleEngine_load_rule(o)) : o \in LibCatalog}
      [] kind = "set_cooldown" -> 0..2

InitWrite ==
    /\ now = 0
    /\ rules_dir = EmptyMap
    /\ cooldown_dir = EmptyMap
    /\ nodes = InitNodes
    /\ status = [r \in RuleNames |-> NoStatus]
    /\ metrics = [n \in NodeNames |-> EnvCool]
    /\ tickLog = EmptyMap
    /\ recoveryLog = EmptyMap
    /\ fireTimes = [k \in FireKeys |-> None]
    /\ lastEvent = [r \in RuleNames |-> "none"]
    /\ \E kind \in WriteKinds :
        \E old \in WriteValues(kind), new \in WriteValues(kind) :
          call = [fn |-> "file read while written", kind |-> kind,
                  old |-> WrittenText(kind, old), new |-> WrittenText(kind, new),
                  file |-> WrittenText(kind, old), pc |-> "open",
                  reads |-> 0, read |-> WrittenText(kind, old), parsed |-> <<>>]
    /\ ret = <<>>

WriteStep(c) ==
    /\ call' = c
    /\ UNCHANGED <<now, rules_dir, cooldown_dir, nodes, status, metrics, tickLog,
                   fireTimes, lastEvent, recoveryLog, ret>>

\* open(file, 'w'): the file is truncated
WriteOpen ==
    /\ call.fn = "file read while written" /\ call.pc = "open"
    /\ WriteStep([call EXCEPT !.file = <<>>, !.pc = "write"])

\* json.dump / f.write: a flush of the buffer puts the next pieces into the file
WriteFlush ==
    /\ call.fn = "file read while written" /\ call.pc = "write"
    /\ \E k \in (Len(call.file) + 1)..(Len(call.new) - 1) :
          WriteStep([call EXCEPT !.file = SubSeq(call.new, 1, k)])

\* the end of the `with` block: the rest is flushed and the file closed
WriteClose ==
    /\ call.fn = "file read while written" /\ call.pc = "write"
    /\ WriteStep([call EXCEPT !.file = call.new, !.pc = "closed"])

\* the reader: json.load of evaluate_rule / load_rule_from_file, or f.read() and
\* float() of is_in_cooldown, each inside a try whose handler gives the file up
ReadFile ==
    /\ call.fn = "file read while written" /\ call.reads < MaxReads
    /\ WriteStep([call EXCEPT
            !.reads = @ + 1, !.read = call.file,
            !.parsed = IF call.kind = "set_cooldown" THEN FloatOf(call.file)
                       ELSE JsonLoad(call.file)])

NextWrite == WriteOpen \/ WriteFlush \/ WriteClose \/ ReadFile
SpecWrite == InitWrite /\ [][NextWrite]_vars

\* ---- node mutations in progress at the same time ----
\* A mutation of KubernetesClient is two calls of the platform: read_node, then
\* patch_node with the object that was read and changed as the body.  The body
\* carries metadata.resourceVersion of the read, and the platform answers a patch
\* whose resourceVersion is not the object's current one with 409 Conflict: an
\* ApiException, which every mutation catches, logs and answers with `return
\* False`.  No mutation reads again or patches again.
Mutators == {1, 2}

\* remove_taint / remove_labels / remove_annotations patch only `if` the
\* collection they read is not empty
KubernetesClient_patches(n, m) ==
    CASE m.op = "remove_taint" -> n.taints # <<>>
      [] m.op = "remove_labels" -> n.labels # EmptyMap
      [] m.op = "remove_annotations" -> n.annotations # EmptyMap
      [] OTHER -> TRUE

\* v1.patch_node(name, body) as the mutation lives it: [node, version, ok]
KubernetesClient_patch_node(current, version, body, resource_version, m) ==
    IF resource_version = version
    THEN [node |-> body, version |-> version + 1, ok |-> TRUE]
    ELSE [node |-> current, version |-> version, ok |-> FALSE]

\* the mutation before its first call
Pending(m) ==
    [mutation |-> m, pc |-> "read", body |-> InitNodes[W1], resource_version |-> 0,
     ok |-> TRUE]

InitPatch ==
    /\ now = 0
    /\ rules_dir = EmptyMap
    /\ cooldown_dir = EmptyMap
    /\ \E n \in ProbeNodes : nodes = [InitNodes EXCEPT ![W1] = n]
    /\ status = [r \in RuleNames |-> NoStatus]
    /\ metrics = [n \in NodeNames |-> EnvCool]
    /\ tickLog = EmptyMap
    /\ recoveryLog = EmptyMap
    /\ fireTimes = [k \in FireKeys |-> None]
    /\ lastEvent = [r \in RuleNames |-> "none"]
    /\ \E m1, m2 \in ProbeMutations :
          call = [fn |-> "interleaved mutations", before |-> nodes[W1], version |-> 1,
                  ops |-> [p \in Mutators |-> Pending(IF p = 1 THEN m1 ELSE m2)]]
    /\ ret = <<>>

\* self.v1.read_node(name=node_name) and the change of the object read
MutationRead ==
    \E p \in Mutators :
        LET op == call.ops[p]
            body == KubernetesClient_call(nodes[W1], op.mutation)
        IN /\ op.pc = "read"
           /\ call' = [call EXCEPT !.ops[p] =
                        [op EXCEPT !.body = body, !.resource_version = call.version,
                                   !.pc = IF KubernetesClient_patches(nodes[W1], op.mutation)
                                          THEN "patch" ELSE "done"]]
           /\ UNCHANGED <<now, rules_dir, cooldown_dir, nodes, status, metrics, tickLog,
                          fireTimes, lastEvent, recoveryLog, ret>>

\* self.v1.patch_node(name=node_name, body=node)
MutationPatch ==
    \E p \in Mutators :
        LET op == call.ops[p]
            answer == KubernetesClient_patch_node(nodes[W1], call.version, op.body,
                                                  op.resource_version, op.mutation)
        IN /\ op.pc = "patch"
           /\ nodes' = [nodes EXCEPT ![W1] = answer.node]
           /\ call' = [call EXCEPT !.version = answer.version,
                                   !.ops[p] = [op EXCEPT !.pc = "done", !.ok = answer.ok]]
           /\ UNCHANGED <<now, rules_dir, cooldown_dir, status, metrics, tickLog,
                          fireTimes, lastEvent, recoveryLog, ret>>

NextPatch == MutationRead \/ MutationPatch
SpecPatch == InitPatch /\ [][NextPatch]_vars

ProbeCalls ==
    [fn : {"RuleEngine.evaluate_condition"},
     condition : {Cond(m, op, Pct(80)) :
                    m \in {"cpuUtilizationPercent", "gpuTemperature"}, op \in Operators},
     e : ProbeEnvs]
    \cup [fn : {"Controller.evaluate_condition"}, metric_value : Probes,
          operator : Operators \cup ScriptOperators, threshold : {Pct(80)}]
    \cup [fn : {"RuleEngine.evaluate_rule_conditions"},
          conditions : CondSeqs({CpuHigh, MemHigh, CpuLow}),
          condition_logic : {"AND", "OR"}, e : {EnvHot, EnvCool}]
    \cup [fn : {"Controller.evaluate_node_for_rule"},
          conditions : CondSeqs({CpuHighSym, MemHighSym, CpuLowSym}),
          condition_logic : {"AND", "OR"}, e : {EnvHot, EnvCool}]
    \cup [fn : {"RuleEngine.get_matching_nodes", "Controller.get_matching_nodes"},
          node_selector : ProbeSelectors, cluster : ProbeClusters]
    \cup [fn : {"RuleEngine.is_in_cooldown", "Controller.check_cooldown"},
          marked : BOOLEAN, at : 0..MaxTime, gap : Gaps, period : Periods]
    \cup [fn : {"KubernetesClient"}, node : ProbeNodes, mutation : ProbeMutations]
    \cup [fn : {"RecoveryManager.execute_untaint_action"}, node : ProbeNodes,
          action : {UntaintAct("k8s.io/overload", "1", "NoSchedule")}]
    \cup [fn : {"RuleEngine._execute_evict_action", "Controller.execute_evict_action"},
          listing : ProbeListings, max_pods : {0, 1, 2},
          exclude_namespaces : ProbeExclusions]
    \cup [fn : {"LibAlertManager.send_alert", "ScriptAlertManager.send_to_channels"},
          channels : ChannelLists, template_channels : ChannelLists, fault : Faults]
    \cup [fn : {"RuleEngine.execute_actions", "Controller.execute_rule_actions"},
          fault : AlertFaults]
    \cup [fn : {"LibAlertManager.render"},
          subject : {<<Text("Rule ")>>, <<Placeholder(<<"owner", "name">>)>>},
          body : Templates(LibPieces), channels : {<<"webhook">>, <<"email", "slack">>}]
    \cup [fn : {"ScriptAlertManager.render_alert_content"},
          title : {<<Text("Rule ")>>, <<Placeholder(<<"owner">>)>>},
          description : Templates(ScriptPieces)]
    \cup [fn : {"MetricsCollector._get_cpu_utilization"}, primary : PrimaryAnswers,
          response : [ok : BOOLEAN, usage : CpuQuantities, capacity : CpuQuantities]]
    \cup [fn : {"MetricsCollector._get_memory_utilization"}, primary : PrimaryAnswers,
          response : [ok : BOOLEAN, usage : MemoryQuantities, capacity : MemoryQuantities]]
    \cup [fn : {"MetricsCollector._get_disk_utilization"}, primary : PrimaryAnswers,
          pressure : BOOLEAN, operator : {"LessThan", "GreaterThan"}]
    \cup [fn : {"RuleEngine._parse_duration"}, duration : Durations]
    \cup [fn : {"RuleEngine.is_in_cooldown after", "Controller.check_cooldown after",
                "RecoveryManager.check_cooldown after"},
          period : Durations, gap : DurationGaps]
    \cup [fn : {"RuleEngine.save_rule, load_rule_from_file"}, rule_data : RuleDocuments]
    \cup [fn : {"RuleEngine.load_rule, evaluate_all_rules"},
          rule_data : InvalidLibRules \cup {r \in LibCatalog : r.enabled}]
    \cup [fn : {"Controller.handle_rule_event, evaluate_all_rules"},
          rule_object : InvalidScriptRules \cup {r \in ScriptCatalog : r.enabled}]
    \cup [fn : {"RuleEngine.execute_actions, status"}, fault : [1..3 -> {"ok", "failed"}]]
    \cup [fn : {"RuleEngine.evaluate_all_rules", "Controller.evaluate_all_rules"},
          order : Orders(RuleNames), failure : ProbeFailures]
    \cup [fn : {"RuleEngine.evaluate_rule, execute_actions"}, rule_data : LibFireRules,
          mets : [NodeNames -> {EnvHot, EnvCool}], entries : FireEntries, t : 0..1,
          fault : Faults]
    \cup [fn : {"Controller.evaluate_rule"}, rule_data : ScriptFireRules,
          mets : [NodeNames -> {EnvHot, EnvCool}], entries : FireEntries, t : 0..1,
          fault : Faults]
    \cup [fn : {"RuleEngine.evaluate_rule_conditions, one query per condition"},
          conditions : CondSeqs({CpuHigh, MemHigh, CpuLow}) \ {<<>>},
          condition_logic : {"AND", "OR"}, answers : [1..2 -> {EnvHot, EnvCool}]]
    \cup [fn : {"Controller.evaluate_node_for_rule, one query per condition"},
          conditions : CondSeqs({CpuHighSym, MemHighSym, CpuLowSym}) \ {<<>>},
          condition_logic : {"AND", "OR"}, answers : [1..2 -> {EnvHot, EnvCool}]]
    \cup [fn : {"RuleEngine._execute_action on a batch", "Controller.execute_action on a batch"},
          action : {Overload("NoSchedule"), Mark,
                    AnnotationAct(<<<<"nodeguardian.io/reason", "cpu">>>>)},
          triggered_nodes : Orders(NodeNames), node_fault : [NodeNames -> Outcomes]]
    \cup [fn : {"cooldown of two triples"}, marked : Triples, checked : Triples]
    \cup [fn : {"Controller.evaluate_rule, RecoveryManager.check_rule_recovery"},
          fired : {r \in ScriptCatalog : r.enabled},
          recovering : {r \in RecoveryCatalog : r.enabled /\ r.recoveryActions # <<>>},
          hot : SUBSET NodeNames]

InitPure ==
    /\ now = 0
    /\ rules_dir = EmptyMap
    /\ cooldown_dir = EmptyMap
    /\ nodes = InitNodes
    /\ status = [r \in RuleNames |-> NoStatus]
    /\ metrics = [n \in NodeNames |-> EnvCool]
    /\ tickLog = EmptyMap
    /\ recoveryLog = EmptyMap
    /\ fireTimes = [k \in FireKeys |-> None]
    /\ lastEvent = [r \in RuleNames |-> "none"]
    /\ call \in ProbeCalls
    /\ ret = <<>>

Returns(values) ==
    /\ ret = <<>>
    /\ ret' = values
    /\ UNCHANGED <<now, rules_dir, cooldown_dir, nodes, status, metrics, tickLog,
                   fireTimes, lastEvent, recoveryLog, call>>

CallLibEvaluateCondition ==
    /\ call.fn = "RuleEngine.evaluate_condition"
    /\ Returns(<<RuleEngine_evaluate_condition(call.condition, call.e)>>)

CallScriptEvaluateCondition ==
    /\ call.fn = "Controller.evaluate_condition"
    /\ Returns(<<Controller_evaluate_condition(call.metric_value, call.operator,
                                               call.threshold)>>)

CallLibEvaluateRuleConditions ==
    /\ call.fn = "RuleEngine.evaluate_rule_conditions"
    /\ Returns(<<RuleEngine_evaluate_rule_conditions(call.conditions, call.condition_logic,
                                                     call.e)>>)

CallScriptEvaluateNodeForRule ==
    /\ call.fn = "Controller.evaluate_node_for_rule"
    /\ Returns(<<Controller_evaluate_node_for_rule(
                    RuleObj(RA, TRUE, NoSelector, call.conditions, call.condition_logic,
                            <<>>, Dur(1, "m")),
                    W1, EmptyMap, 0, call.e)>>)

\* the result and the label selector sent to the platform
CallLibGetMatchingNodes ==
    /\ call.fn = "RuleEngine.get_matching_nodes"
    /\ Returns(<<RuleEngine_get_matching_nodes(call.node_selector, call.cluster),
                 RuleEngine_label_selector(call.node_selector)>>)

CallScriptGetMatchingNodes ==
    /\ call.fn = "Controller.get_matching_nodes"
    /\ Returns(<<Controller_get_matching_nodes(call.node_selector, call.cluster),
                 Controller_selector_parts(call.node_selector)>>)

\* the entry (if any) written at call.at, then the check call.gap seconds later
CallLibIsInCooldown ==
    /\ call.fn = "RuleEngine.is_in_cooldown"
    /\ Returns(<<RuleEngine_is_in_cooldown(
                    IF call.marked THEN RuleEngine_set_cooldown(EmptyMap, call.at, RA, W1)
                    ELSE EmptyMap,
                    call.at + call.gap, RA, W1)>>)

CallScriptCheckCooldown ==
    /\ call.fn = "Controller.check_cooldown"
    /\ Returns(<<Controller_check_cooldown(
                    IF call.marked THEN Controller_set_cooldown(EmptyMap, call.at, RA, W1)
                    ELSE EmptyMap,
                    call.at + call.gap, RA, W1, call.period)>>)

\* the node after the mutation is applied once, and after it is applied twice
CallKubernetesClient ==
    /\ call.fn = "KubernetesClient"
    /\ Returns(<<KubernetesClient_call(call.node, call.mutation),
                 KubernetesClient_call(KubernetesClient_call(call.node, call.mutation),
                                       call.mutation)>>)

\* the node after the untaint recovery action
CallRecoveryUntaint ==
    /\ call.fn = "RecoveryManager.execute_untaint_action"
    /\ Returns(<<Recovery_execute_untaint_action(call.node, call.action)>>)

\* the pods the evict action deletes on one node
CallLibEvict ==
    /\ call.fn = "RuleEngine._execute_evict_action"
    /\ Returns(<<RuleEngine_execute_evict_action(call.listing, call.max_pods,
                                                 call.exclude_namespaces)>>)

CallScriptEvict ==
    /\ call.fn = "Controller.execute_evict_action"
    /\ Returns(<<Controller_execute_evict_action(call.listing, call.max_pods,
                                                 call.exclude_namespaces, <<>>)>>)

\* the channels tried with the drawn failures, the channels tried when nothing
\* fails, and the channels the alert was to go to
CallLibSendAlert ==
    /\ call.fn = "LibAlertManager.send_alert"
    /\ Returns(<<LibAlertManager_send_alert(call.channels, call.template_channels, call.fault),
                 LibAlertManager_send_alert(call.channels, call.template_channels, NoFault),
                 LibAlertManager_channels(call.channels, call.template_channels)>>)

CallScriptSendToChannels ==
    /\ call.fn = "ScriptAlertManager.send_to_channels"
    /\ LET unique_channels ==
            ScriptAlertManager_unique_channels(
                ChannelRefs(call.channels) \o ChannelRefs(call.template_channels), <<>>)
       IN Returns(<<ScriptAlertManager_send_to_channels(
                        ChannelRefs(call.channels), ChannelRefs(call.template_channels),
                        call.fault),
                    ScriptAlertManager_send_to_channels(
                        ChannelRefs(call.channels), ChannelRefs(call.template_channels),
                        NoFault),
                    [i \in DOMAIN unique_channels |-> unique_channels[i].type]>>)

\* the world after the batch of AlertingRule on w1 and w2
CallLibExecuteActions ==
    /\ call.fn = "RuleEngine.execute_actions"
    /\ Returns(<<RuleEngine_execute_actions(
                    World(cooldown_dir, nodes, status, EmptyMap, fireTimes),
                    AlertingRule, <<W1, W2>>, now, call.fault)>>)

CallScriptExecuteRuleActions ==
    /\ call.fn = "Controller.execute_rule_actions"
    /\ Returns(<<Controller_execute_rule_actions(
                    World(cooldown_dir, nodes, status, EmptyMap, fireTimes),
                    AlertingRule, <<W1, W2>>, now, call.fault)>>)

CallLibRender ==
    /\ call.fn = "LibAlertManager.render"
    /\ Returns(<<LibAlertManager_render_and_send(call.subject, call.body, call.channels)>>)

CallScriptRenderAlertContent ==
    /\ call.fn = "ScriptAlertManager.render_alert_content"
    /\ Returns(<<ScriptAlertManager_render_alert_content(
                    call.title, <<Text("Rule ")>>, call.description)>>)

CallLibGetCpuUtilization ==
    /\ call.fn = "MetricsCollector._get_cpu_utilization"
    /\ Returns(<<MetricsCollector_get_node_metrics(
                    MetricEnv(call.primary, Fail, Fail, Fail,
                              MetricsServer_cpu(call.response), Fail, FALSE, Fail),
                    "cpuUtilizationPercent")>>)

CallLibGetMemoryUtilization ==
    /\ call.fn = "MetricsCollector._get_memory_utilization"
    /\ Returns(<<MetricsCollector_get_node_metrics(
                    MetricEnv(Fail, call.primary, Fail, Fail,
                              Fail, MetricsServer_memory(call.response), FALSE, Fail),
                    "memoryUtilizationPercent")>>)

\* the disk percentage the resolver answers, and what a condition on it with the
\* threshold 80.0 evaluates to
CallLibGetDiskUtilization ==
    /\ call.fn = "MetricsCollector._get_disk_utilization"
    /\ LET e == MetricEnv(Fail, Fail, call.primary, Fail, Fail, Fail, call.pressure, Fail)
       IN Returns(<<MetricsCollector_get_node_metrics(e, "diskUtilizationPercent"),
                    RuleEngine_evaluate_condition(
                        Cond("diskUtilizationPercent", call.operator, Pct(80)), e)>>)

CallLibParseDuration ==
    /\ call.fn = "RuleEngine._parse_duration"
    /\ Returns(<<RuleEngine_parse_duration(call.duration)>>)

\* the cooldown of (rule, node) is marked, and checked `gap` seconds later
CallLibCooldownAfter ==
    /\ call.fn = "RuleEngine.is_in_cooldown after"
    /\ Returns(<<RuleEngine_is_in_cooldown(RuleEngine_set_cooldown(EmptyMap, 0, RA, W1),
                                           call.gap, RA, W1)>>)

CallScriptCooldownAfter ==
    /\ call.fn = "Controller.check_cooldown after"
    /\ Returns(<<Controller_check_cooldown(Controller_set_cooldown(EmptyMap, 0, RA, W1),
                                           call.gap, RA, W1, call.period)>>)

CallRecoveryCooldownAfter ==
    /\ call.fn = "RecoveryManager.check_cooldown after"
    /\ Returns(<<Recovery_check_cooldown(
                    Recovery_set_cooldown(EmptyMap, 0, RecoveryName(RA), W1),
                    call.gap, RecoveryName(RA), W1, call.period)>>)

\* the rule load_rule builds, and the rule read back after it was saved
CallLibSaveAndLoadRule ==
    /\ call.fn = "RuleEngine.save_rule, load_rule_from_file"
    /\ LET rule == RuleEngine_load_rule(call.rule_data)
       IN Returns(<<rule,
                    RuleEngine_load_rule_from_file(
                        RuleEngine_save_rule(rules_dir, rule), rule.name)>>)

\* a rule is ingested while every node is hot, and one trigger tick follows:
\* the mirror and the rule's status after the ingest, the batches of the tick
CallLibIngest ==
    /\ call.fn = "RuleEngine.load_rule, evaluate_all_rules"
    /\ LET st == [status EXCEPT ![call.rule_data.name].exists = TRUE]
           rules == RuleEngine_save_rule(rules_dir, RuleEngine_load_rule(call.rule_data))
           w == RuleEngine_evaluate_all_rules(
                    World(cooldown_dir, nodes, st, EmptyMap, fireTimes),
                    SeqOfSet(DOMAIN rules), rules, now,
                    [n \in NodeNames |-> EnvHot], [i \in 1..2 |-> "ok"])
       IN Returns(<<rules, st[call.rule_data.name], w.log>>)

CallScriptIngest ==
    /\ call.fn = "Controller.handle_rule_event, evaluate_all_rules"
    /\ LET st == [status EXCEPT ![call.rule_object.name].exists = TRUE]
           h == Controller_handle_rule_event(rules_dir, cooldown_dir, st,
                                             "Added", call.rule_object, now)
           w == Controller_evaluate_all_rules(
                    World(h.cd, nodes, h.status, EmptyMap, fireTimes),
                    SeqOfSet(DOMAIN h.rules), h.rules, now,
                    [n \in NodeNames |-> EnvHot], [i \in 1..2 |-> "ok"])
       IN Returns(<<h.rules, h.status[call.rule_object.name], w.log>>)

\* the fire of AlertingRule on w1 and w2 with the drawn platform failures, and
\* the same fire when nothing fails; the rule's object exists on the platform
CallLibExecuteActionsStatus ==
    /\ call.fn = "RuleEngine.execute_actions, status"
    /\ LET w == World(cooldown_dir, nodes, [status EXCEPT ![RA].exists = TRUE],
                      EmptyMap, fireTimes)
       IN Returns(<<RuleEngine_execute_actions(w, AlertingRule, <<W1, W2>>, now, call.fault),
                    RuleEngine_execute_actions(w, AlertingRule, <<W1, W2>>, now,
                                               [i \in 1..3 |-> "ok"])>>)

\* one tick over the two enabled rules of the catalog while every node is hot
CallLibEvaluateAllRules ==
    /\ call.fn = "RuleEngine.evaluate_all_rules"
    /\ LET rules == [r \in RuleNames |->
                        RuleEngine_rule_data(RuleEngine_load_rule(
                            CHOOSE o \in LibCatalog : o.name = r /\ o.enabled))]
       IN Returns(<<RuleEngine_evaluate_all_rules_with(
                        World(cooldown_dir, nodes, status, EmptyMap, fireTimes),
                        call.order, rules, now, [n \in NodeNames |-> EnvHot],
                        call.failure)>>)

CallScriptEvaluateAllRules ==
    /\ call.fn = "Controller.evaluate_all_rules"
    /\ LET rules == [r \in RuleNames |-> CHOOSE o \in ScriptCatalog : o.name = r /\ o.enabled]
       IN Returns(<<Controller_evaluate_all_rules_with(
                        World(cooldown_dir, nodes, status, EmptyMap, fireTimes),
                        call.order, rules, now, [n \in NodeNames |-> EnvHot],
                        call.failure)>>)

\* one fire of one rule, with the rule's cooldown entries, the metrics of each
\* node and the failures of the actions drawn
CallLibFire ==
    /\ call.fn = "RuleEngine.evaluate_rule, execute_actions"
    /\ Returns(<<RuleEngine_fire(
                    World(CooldownDir(call.rule_data.name, call.entries), nodes, status,
                          EmptyMap, fireTimes),
                    RuleEngine_load_rule(call.rule_data), call.t, call.mets, call.fault)>>)

CallScriptFire ==
    /\ call.fn = "Controller.evaluate_rule"
    /\ Returns(<<Controller_fire(
                    World(CooldownDir(call.rule_data.name, call.entries), nodes, status,
                          EmptyMap, fireTimes),
                    call.rule_data, call.t, call.mets, call.fault)>>)

\* one evaluation while the load of the node changes between two queries
CallLibEvaluateQuerying ==
    /\ call.fn = "RuleEngine.evaluate_rule_conditions, one query per condition"
    /\ Returns(<<RuleEngine_evaluate_rule_conditions_querying(
                    call.conditions, call.condition_logic, call.answers)>>)

CallScriptEvaluateQuerying ==
    /\ call.fn = "Controller.evaluate_node_for_rule, one query per condition"
    /\ Returns(<<Controller_combine_querying(
                    call.conditions, call.condition_logic, call.answers)>>)

\* one action of a fire on the batch w1, w2 with the outcome of the platform
\* call of each node drawn
CallLibActionOnBatch ==
    /\ call.fn = "RuleEngine._execute_action on a batch"
    /\ Returns(<<RuleEngine_apply_action_with(nodes, call.action, call.triggered_nodes,
                                              call.node_fault, <<>>)>>)

CallScriptActionOnBatch ==
    /\ call.fn = "Controller.execute_action on a batch"
    /\ Returns(<<Controller_apply_action_with(nodes, call.action, call.triggered_nodes,
                                              call.node_fault, <<>>)>>)

\* one triple is marked in an empty ledger, and another is checked before and
\* after that
CallLedgerMarkAndCheck ==
    /\ call.fn = "cooldown of two triples"
    /\ LET cd == Ledger_mark(cooldown_dir, now, call.marked[1], call.marked[2],
                             call.marked[3])
       IN Returns(<<Ledger_check(cooldown_dir, now, call.checked[1], call.checked[2],
                                 call.checked[3], Dur(1, "m")),
                    Ledger_check(cd, now, call.checked[1], call.checked[2],
                                 call.checked[3], Dur(1, "m"))>>)

\* the trigger tick of one rule while the nodes of `hot` are loaded, then two
\* recovery ticks of a rule (the same or another) when every node is cool
\* again, the second after the recovery cooldown
CallTriggerThenRecovery ==
    /\ call.fn = "Controller.evaluate_rule, RecoveryManager.check_rule_recovery"
    /\ LET cool == [n \in NodeNames |-> EnvCool]
           fire == Controller_evaluate_rule(
                      World(cooldown_dir, nodes, [status EXCEPT ![call.fired.name].exists = TRUE],
                            EmptyMap, fireTimes),
                      call.fired, 0,
                      [n \in NodeNames |-> IF n \in call.hot THEN EnvHot ELSE EnvCool], <<>>)
           first == Recovery_check_rule_recovery([fire EXCEPT !.log = EmptyMap],
                                                 call.recovering, 0, cool, <<>>)
           second == Recovery_check_rule_recovery([first EXCEPT !.log = EmptyMap],
                                                  call.recovering, 1, cool, <<>>)
       IN Returns(<<fire.log, first.log, second.log>>)

NextPure ==
    \/ CallLibEvaluateCondition
    \/ CallScriptEvaluateCondition
    \/ CallLibEvaluateRuleConditions
    \/ CallScriptEvaluateNodeForRule
    \/ CallLibGetMatchingNodes
    \/ CallScriptGetMatchingNodes
    \/ CallLibIsInCooldown
    \/ CallScriptCheckCooldown
    \/ CallKubernetesClient
    \/ CallRecoveryUntaint
    \/ CallLibEvict
    \/ CallScriptEvict
    \/ CallLibSendAlert
    \/ CallScriptSendToChannels
    \/ CallLibExecuteActions
    \/ CallScriptExecuteRuleActions
    \/ CallLibRender
    \/ CallScriptRenderAlertContent
    \/ CallLibGetCpuUtilization
    \/ CallLibGetMemoryUtilization
    \/ CallLibGetDiskUtilization
    \/ CallLibParseDuration
    \/ CallLibCooldownAfter
    \/ CallScriptCooldownAfter
    \/ CallRecoveryCooldownAfter
    \/ CallLibSaveAndLoadRule
    \/ CallLibIngest
    \/ CallScriptIngest
    \/ CallLibExecuteActionsStatus
    \/ CallLibEvaluateAllRules
    \/ CallScriptEvaluateAllRules
    \/ CallLibFire
    \/ CallScriptFire
    \/ CallLibEvaluateQuerying
    \/ CallScriptEvaluateQuerying
    \/ CallLibActionOnBatch
    \/ CallScriptActionOnBatch
    \/ CallLedgerMarkAndCheck
    \/ CallTriggerThenRecovery
SpecPure == InitPure /\ [][NextPure]_vars

-----------------------------------------------------------------------------
(* The properties *)

\* the comparison an operator of the closed set names, tolerance 0.001 for equality
Compare(operator, v, t) ==
    CASE operator = "GreaterThan" -> v > t
      [] operator = "GreaterThanOrEqual" -> v >= t
      [] operator = "LessThan" -> v < t
      [] operator = "LessThanOrEqual" -> v <= t
      [] operator = "EqualTo" -> Abs(v - t) < Milli(1)
      [] operator = "NotEqualTo" -> Abs(v - t) >= Milli(1)

\* AND: every condition satisfied; OR: at least one; never with no condition
Combined(conditions, condition_logic, satisfied) ==
    /\ conditions # <<>>
    /\ IF condition_logic = "AND"
       THEN \A i \in DOMAIN conditions : conditions[i] \in satisfied
       ELSE \E i \in DOMAIN conditions : conditions[i] \in satisfied

\* a period in seconds
PeriodSeconds(d) ==
    d.n * (CASE d.unit = "s" -> 1 [] d.unit = "m" -> 60 [] d.unit = "h" -> 3600
             [] d.unit = "d" -> 86400)

\* the nodes a selector designates
Targets(node_selector, cluster) ==
    IF node_selector.hasNodeNames THEN Range(node_selector.nodeNames)
    ELSE {n \in DOMAIN cluster :
            \A i \in DOMAIN node_selector.matchLabels :
                /\ node_selector.matchLabels[i][1] \in DOMAIN cluster[n].labels
                /\ cluster[n].labels[node_selector.matchLabels[i][1]]
                        = node_selector.matchLabels[i][2]}

\* the place of a label key in lexicographic order
KeyRank(k) == CASE k = "role" -> 1 [] k = "zone" -> 2 [] OTHER -> 3

\* the selector sent is k1=v1,k2=v2 of the matchLabels, keys in lexicographic order
WireForm(reqs, labels) ==
    /\ \A i \in DOMAIN reqs : reqs[i].plain
    /\ {<<reqs[i].key, reqs[i].value>> : i \in DOMAIN reqs} = Range(labels)
    /\ \A i, j \in DOMAIN reqs : i < j => KeyRank(reqs[i].key) < KeyRank(reqs[j].key)

\* C1: in the library engine, while a rule stays registered and enabled, two
\* executions of its trigger actions on one node are at least its cooldownPeriod
\* apart: every node of a batch the tick executed had its previous fire at least
\* the period before.
C1_FiresAreCooldownApart ==
    \A r \in DOMAIN tickLog :
        tickLog[r].impl = "library" =>
            \A n \in Range(tickLog[r].nodes) :
                tickLog[r].prev[n] # None =>
                    tickLog[r].time - tickLog[r].prev[n] >= tickLog[r].period

\* C2: the cooldown check is exact: is_in_cooldown (library) and check_cooldown
\* (script) report "in cooldown" if and only if an entry exists for the key and
\* less than the period has passed since it was written; with no entry, or with
\* period 0, they report "not in cooldown"; right after set_cooldown with a
\* positive period they report "in cooldown".
C2_CooldownCheckIsExact ==
    (call.fn \in {"RuleEngine.is_in_cooldown", "Controller.check_cooldown"} /\ ret # <<>>)
        => (ret[1] <=> (call.marked /\ call.gap < PeriodSeconds(call.period)))

\* C3: when the trigger batch of rule R completes for the nodes B at time t, the
\* cooldown entry of (R, N) is t for every N in B and is left as it was for every
\* node outside B; and from then on, until cooldownPeriod has passed, the
\* cooldown check of (R, N) answers "in cooldown".
C3_BatchMarksItsNodes ==
    /\ \A r \in DOMAIN tickLog :
          tickLog[r].marked =>
            \A n \in NodeNames :
                CooldownEntry(cooldown_dir, r, n)
                    = IF n \in Range(tickLog[r].nodes) THEN tickLog[r].time
                      ELSE tickLog[r].before[n]
    /\ \A r \in DOMAIN rules_dir : \A n \in NodeNames :
          (/\ fireTimes[<<r, n>>] # None
           /\ now - fireTimes[<<r, n>>] < PeriodSeconds(rules_dir[r].cooldownPeriod))
            => RuleEngine_is_in_cooldown(cooldown_dir, now, r, n)

\* C4: conditions are combined, by the library's evaluate_rule_conditions and by
\* the script's evaluate_node_for_rule, as: AND is true iff every condition is
\* satisfied, OR iff at least one is, and an empty condition list is false for
\* either logic.
C4_ConditionsAreCombined ==
    /\ (call.fn = "RuleEngine.evaluate_rule_conditions" /\ ret # <<>>)
        => ret[1] = Combined(call.conditions, call.condition_logic,
                             {c \in Range(call.conditions) :
                                RuleEngine_evaluate_condition(c, call.e)})
    /\ (call.fn = "Controller.evaluate_node_for_rule" /\ ret # <<>>)
        => ret[1] = Combined(call.conditions, call.condition_logic,
                             {c \in Range(call.conditions) :
                                Controller_condition_satisfied(c, call.e)})

\* C5: a condition whose metric cannot be resolved (every tier of the resolver
\* failed, or the metric key is unknown) is not counted as satisfied, whatever
\* its operator and threshold.
C5_UnresolvedIsUnsatisfied ==
    (/\ call.fn = "RuleEngine.evaluate_condition"
     /\ ret # <<>>
     /\ ~Resolvable(call.e, call.condition.metric))
        => ret[1] = FALSE

\* C6: for every operator of the closed set, every metric value v and threshold
\* t, evaluate_condition of the library and of the script returns the comparison
\* the operator names: strict > and <, non-strict >= and <=, EqualTo iff
\* |v - t| < 0.001, NotEqualTo iff |v - t| >= 0.001.
C6_OperatorsCompare ==
    /\ (/\ call.fn = "RuleEngine.evaluate_condition"
        /\ ret # <<>>
        /\ Resolvable(call.e, call.condition.metric))
        => ret[1] = Compare(call.condition.operator,
                            MetricsCollector_get_node_metrics(call.e, call.condition.metric),
                            call.condition.value)
    /\ (/\ call.fn = "Controller.evaluate_condition"
        /\ ret # <<>>
        /\ call.operator \in Operators)
        => ret[1] = Compare(call.operator, call.metric_value, call.threshold)

\* C7: get_matching_nodes of the library and of the script: with nodeNames set,
\* the targets are exactly those names, whatever the labels; otherwise they are
\* exactly the nodes carrying every pair of matchLabels, the selector sent being
\* k1=v1,k2=v2 in lexicographic key order; an empty selector selects every node.
C7_SelectorDesignatesTargets ==
    (call.fn \in {"RuleEngine.get_matching_nodes", "Controller.get_matching_nodes"}
     /\ ret # <<>>)
        => /\ Range(ret[1]) = Targets(call.node_selector, call.cluster)
           /\ ~call.node_selector.hasNodeNames
                => WireForm(ret[2], call.node_selector.matchLabels)

\* C8: within one fire of a rule, its actions are started in the declared order
\* and every one of them is started: an action that fails, raises or has an
\* unknown type does not keep a later action of the batch from being executed.
C8_EveryActionIsAttempted ==
    \A r \in DOMAIN tickLog :
        tickLog[r].attempted = [i \in 1..tickLog[r].declared |-> i]

\* C9: taint, label, annotation and their removals are idempotent on the node:
\* applied twice with the same inputs they leave the node as applied once; and
\* after a taint the node carries exactly one taint with that key, the one given
\* (an existing taint with the key is replaced, an absent one appended).
C9_MutationsAreIdempotent ==
    (call.fn = "KubernetesClient" /\ ret # <<>>)
        => /\ ret[2] = ret[1]
           /\ call.mutation.op = "taint_node"
                => \E i \in DOMAIN ret[1].taints :
                      /\ ret[1].taints[i] = Taint(call.mutation.key, call.mutation.value,
                                                  call.mutation.effect)
                      /\ \A j \in DOMAIN ret[1].taints :
                            ret[1].taints[j].key = call.mutation.key => j = i

\* C10: after any sequence of Added / Modified / Deleted events handled by
\* handle_rule_event, the rules with a mirror file are exactly the rules whose
\* most recent event was Added or Modified with enabled=true; and a rule whose
\* most recent event unregistered it is not loaded from the mirror.
C10_MirrorFollowsEvents ==
    /\ DOMAIN rules_dir = {r \in RuleNames : lastEvent[r] = "enabled"}
    /\ \A r \in RuleNames :
          lastEvent[r] \in {"Deleted", "disabled"}
            => RuleEngine_load_rule_from_file(rules_dir, r) = <<>>

\* C10 happens: the rule "hot" was registered, fired on w1 and was then deleted,
\* while "hot_recovery" is registered
C10_Witness ==
    /\ lastEvent[RA] = "Deleted"
    /\ lastEvent[RB] = "enabled"
    /\ DOMAIN rules_dir = {RB}
    /\ \E i \in DOMAIN nodes[W1].taints : nodes[W1].taints[i].key = "k8s.io/overload"

\* whether the node carries the taint / the label the rule "hot" sets
Overloaded(n) == \E i \in DOMAIN nodes[n].taints : nodes[n].taints[i].key = "k8s.io/overload"
Marked(n) == "nodeguardian.io/rule-triggered" \in DOMAIN nodes[n].labels

\* C11: when the watch delivers Added / Modified with enabled=false, or Deleted,
\* for a rule, then right after the event no cooldown entry of the rule is left
\* for any node, trigger or recovery, and both cooldown checks answer "not in
\* cooldown" for the rule on every node.
C11_DisablingClearsCooldowns ==
    [][\A rule_object \in RecoveryCatalog, watch_event \in {"Added", "Modified", "Deleted"} :
          (/\ watch_event = "Deleted" \/ ~rule_object.enabled
           /\ WatchEvent(watch_event, rule_object))
            => \A n \in NodeNames :
                /\ CooldownEntry(cooldown_dir', rule_object.name, n) = None
                /\ CooldownEntry(cooldown_dir', RecoveryName(rule_object.name), n) = None
                /\ ~Controller_check_cooldown(cooldown_dir', now', rule_object.name, n,
                                              rule_object.cooldownPeriod)
                /\ ~Recovery_check_cooldown(cooldown_dir', now',
                                            RecoveryName(rule_object.name), n,
                                            rule_object.recoveryCooldownPeriod)]_vars

\* C11 happens: "hot" fired on w1 (the taint is there) and recovered on w1 (the
\* label it had set is gone again), which marked both cooldowns of ("hot", w1);
\* its last event disabled it and no entry is left
C11_Witness ==
    /\ lastEvent[RA] = "disabled"
    /\ Overloaded(W1) /\ ~Marked(W1)
    /\ cooldown_dir = EmptyMap

\* C12: a rule whose most recent event disabled or deleted it is not executed
\* by a trigger tick and not found recovered by a recovery tick: every batch
\* and every recovery a tick has just carried out belongs to a rule whose most
\* recent event was Added / Modified with enabled=true.
C12_DisabledRulesAreNotEvaluated ==
    /\ \A r \in DOMAIN tickLog : lastEvent[r] = "enabled"
    /\ \A k \in DOMAIN recoveryLog : lastEvent[k[1]] = "enabled"

\* C12 happens: "hot" is disabled while w1 carries its label and has a low CPU
\* again (its recovery conditions hold) and w2 is hot and free of its taint
\* (its trigger conditions hold): ticks in this state do nothing
C12_Witness ==
    /\ lastEvent[RA] \in {"disabled", "Deleted"}
    /\ Marked(W1) /\ metrics[W1] = EnvCool
    /\ ~Overloaded(W2) /\ metrics[W2] = EnvHot
    /\ tickLog = EmptyMap /\ recoveryLog = EmptyMap

\* C13: after a Synchronization the mirrored rules are exactly the enabled
\* rules of the snapshot: a rule that was not in the snapshot (and had no event
\* since) has no mirror file, a rule that was in it is mirrored exactly when it
\* is enabled.
C13_SynchronizationReconciles ==
    \A r \in RuleNames :
        /\ lastEvent[r] = "unseen" => r \notin DOMAIN rules_dir
        /\ lastEvent[r] = "enabled" => r \in DOMAIN rules_dir
        /\ lastEvent[r] = "disabled" => r \notin DOMAIN rules_dir

\* C14: recovery actions run on a node only when the rule has recovery
\* conditions, all of them hold on the node, and the recovery cooldown of the
\* pair is over; and while the rule stays registered two executions of its
\* recovery actions on one node are at least recoveryCooldownPeriod apart.
C14_RecoveryIsGuardedAndSpaced ==
    \A k \in DOMAIN recoveryLog :
        LET rec == recoveryLog[k] IN
        rec.attempted # <<>> =>
            /\ rec.conditions # <<>>
            /\ \A i \in DOMAIN rec.conditions :
                    Recovery_condition_satisfied(rec.conditions[i], MetOf(metrics, rec.node))
            /\ rec.before # None => rec.time - rec.before >= rec.period
            /\ rec.prev # None => rec.time - rec.prev >= rec.period

\* C15: for every pair (rule, node) a recovery tick found recovered, at the end
\* of the tick the node is not in the rule's status.triggeredNodes, every other
\* node that was listed and was not itself recovered in the tick is still
\* listed, and the recovery cooldown of the pair carries the time of the tick,
\* whatever the number of recovery actions of the rule.
C15_RecoveredNodeLeavesStatus ==
    \A k \in DOMAIN recoveryLog :
        LET rec == recoveryLog[k] IN
        /\ rec.node \notin Range(status[rec.rule].triggeredNodes)
        /\ \A m \in Range(rec.listed) :
              (m # rec.node /\ <<rec.rule, m>> \notin DOMAIN recoveryLog)
                => m \in Range(status[rec.rule].triggeredNodes)
        /\ CooldownEntry(cooldown_dir, RecoveryName(rec.rule), rec.node) = rec.time

\* the place of a pod in (namespace, name) order
PodRank(pod) ==
    CASE pod.namespace = "app" /\ pod.name = "api" -> 1
      [] pod.namespace = "app" -> 2
      [] pod.namespace = "kube-system" -> 3
      [] OTHER -> 4

\* the channels an alert goes to: the action's, else the template's, else log
SelectedChannels(channels, template_channels) ==
    IF channels # <<>> THEN channels
    ELSE IF template_channels # <<>> THEN template_channels
    ELSE <<"log">>

\* C16: removing the taint of key k from a node (the script's untaint recovery
\* action, the library's remove_taint) leaves no taint of key k on the node
\* and leaves the taints of the other keys as they were, in their order.
C16_UntaintRemovesByKey ==
    LET untaint == call.fn = "RecoveryManager.execute_untaint_action"
        remove == call.fn = "KubernetesClient" /\ call.mutation.op = "remove_taint"
        key == IF untaint THEN call.action.key ELSE call.mutation.key
    IN ((untaint \/ remove) /\ ret # <<>>) =>
        /\ \A i \in DOMAIN ret[1].taints : ret[1].taints[i].key # key
        /\ SelectSeq(ret[1].taints, LAMBDA t : t.key # key)
            = SelectSeq(call.node.taints, LAMBDA t : t.key # key)
        /\ ret[1].labels = call.node.labels
        /\ ret[1].annotations = call.node.annotations

\* C17: on one node an evict action deletes at most maxPods pods, none of an
\* excluded namespace, and the pods it deletes are the first maxPods of the
\* node's pods outside the excluded namespaces in (namespace, name) order.
C17_EvictTakesTheFirstInOrder ==
    (call.fn \in {"RuleEngine._execute_evict_action", "Controller.execute_evict_action"}
     /\ ret # <<>>) =>
        LET eligible == {pod \in Range(call.listing) :
                            pod.namespace \notin Range(call.exclude_namespaces)}
        IN /\ Len(ret[1]) <= call.max_pods
           /\ \A i \in DOMAIN ret[1] :
                ret[1][i].namespace \notin Range(call.exclude_namespaces)
           /\ Range(ret[1]) =
                {pod \in eligible :
                    Cardinality({q \in eligible : PodRank(q) < PodRank(pod)}) < call.max_pods}

\* C18: for one alert, what happens on one channel changes nothing for the
\* others: the channels tried are the same as when no channel fails, and a
\* channel of a known type that follows a failing or unknown one is tried.
C18_ChannelsAreIsolated ==
    (call.fn \in {"LibAlertManager.send_alert", "ScriptAlertManager.send_to_channels"}
     /\ ret # <<>>) =>
        /\ ret[1] = ret[2]
        /\ \A i \in DOMAIN ret[3] :
              ret[3][i] \in {"email", "webhook"} => ret[3][i] \in Range(ret[1])

\* C19: whatever happens to the alert action of a fire, every action of the
\* batch is started, the taint and the label of the other actions are on every
\* triggered node, and the cooldown of every triggered node is marked.
C19_AlertFailureDoesNotStopTheFire ==
    (call.fn \in {"RuleEngine.execute_actions", "Controller.execute_rule_actions"}
     /\ ret # <<>>) =>
        LET w == ret[1] IN
        /\ RA \in DOMAIN w.log
        /\ w.log[RA].attempted = <<1, 2, 3>>
        /\ w.log[RA].marked
        /\ \A n \in {W1, W2} :
              /\ \E i \in DOMAIN w.nodes[n].taints : w.nodes[n].taints[i].key = "k8s.io/overload"
              /\ "nodeguardian.io/rule-triggered" \in DOMAIN w.nodes[n].labels
              /\ CooldownEntry(w.cd, RA, n) = now

\* C20: the channels of an alert are the channels the action lists; when it
\* lists none, the channels of the template; when that list is empty too, the
\* log channel, on which the alert is then delivered.
C20_ChannelSelection ==
    (call.fn \in {"LibAlertManager.send_alert", "ScriptAlertManager.send_to_channels"}
     /\ ret # <<>>) =>
        /\ ret[3] = SelectedChannels(call.channels, call.template_channels)
        /\ SelectedChannels(call.channels, call.template_channels) = <<"log">>
              => ret[2] = <<"log">>


\* what a template renders to when every placeholder outside `defined` gives the
\* empty string
RECURSIVE Rendering(_, _)
Rendering(template, defined) ==
    IF template = <<>> THEN <<>>
    ELSE (IF Head(template).kind = "text" THEN <<Head(template)>>
          ELSE IF Head(template).path \in defined THEN <<ValueOf(Head(template).path)>>
          ELSE <<>>)
         \o Rendering(Tail(template), defined)

\* C21: rendering an alert never aborts because of an undefined placeholder: a
\* placeholder whose path is not defined in the context, also a dotted path under
\* an undefined root, renders as the empty string, subject and body are both
\* produced, and the alert is handed to its channels.
C21_UndefinedPlaceholdersRenderEmpty ==
    /\ (call.fn = "LibAlertManager.render" /\ ret # <<>>) =>
          /\ ret[1].rendered
          /\ ret[1].subject = Rendering(call.subject, {<<"rule_name">>})
          /\ ret[1].body = Rendering(call.body, {<<"rule_name">>})
          /\ ret[1].attempted = call.channels
    /\ (call.fn = "ScriptAlertManager.render_alert_content" /\ ret # <<>>) =>
          /\ ret[1].title = Rendering(call.title, {<<"ruleName">>})
          /\ ret[1].description =
                Rendering(call.description, {<<"ruleName">>, <<"triggeredNodes">>})

\* the compact units as factors <<numerator, denominator>>: cpu quantities in
\* thousandths of a core, memory quantities in 2^30 bytes
UnitFactor(unit) ==
    CASE unit = "m" -> <<1, 1>>
      [] unit = "n" -> <<1, 1000000>>
      [] unit = "Ki" -> <<1, 1024 * 1024>>
      [] unit = "Mi" -> <<1, 1024>>
      [] unit = "Gi" -> <<1, 1>>
      [] unit = "Ti" -> <<1024, 1>>
Amount(q, plain) ==
    IF q.unit = "" THEN (q.n * plain[1]) \div plain[2]
    ELSE (q.n * UnitFactor(q.unit)[1]) \div UnitFactor(q.unit)[2]
CompactUnits == {"", "m", "n", "Ki", "Mi", "Gi", "Ti"}

\* C22: for the cpu and memory percentages the value of the time-series query is
\* returned whenever the query yields one; only when it yields none is the
\* node-usage fallback used, which returns usage / capacity * 100 with the
\* compact units parsed (usage 1500m of capacity 2 is 75).
C22_ResolutionIsTiered ==
    (call.fn \in {"MetricsCollector._get_cpu_utilization",
                  "MetricsCollector._get_memory_utilization"} /\ ret # <<>>) =>
        LET plain == IF call.fn = "MetricsCollector._get_cpu_utilization"
                     THEN <<1000, 1>> ELSE <<1, 1024 * 1024 * 1024>>
        IN /\ call.primary # Fail => ret[1] = call.primary
           /\ (/\ call.primary = Fail
               /\ call.response.ok
               /\ call.response.usage.unit \in CompactUnits
               /\ call.response.capacity.unit \in CompactUnits) =>
                 ret[1] = (Amount(call.response.usage, plain) * 100 * 2000)
                             \div Amount(call.response.capacity, plain)

\* the primary query has failed, the node reports a usage of 1500m of 2 cores,
\* and the resolver has answered 75.0
C22_Witness ==
    /\ call.fn = "MetricsCollector._get_cpu_utilization"
    /\ call.primary = Fail
    /\ call.response.ok
    /\ call.response.usage = Quantity(1500, "m")
    /\ call.response.capacity = Quantity(2, "")
    /\ ret = <<Pct(75)>>

\* C23: when the time-series query gives no disk percentage, the resolver
\* answers 90.0 for a node under DiskPressure and otherwise reports the metric
\* as unavailable: no number, and no condition on it is satisfied.
C23_DiskIsInferredOrUnavailable ==
    (call.fn = "MetricsCollector._get_disk_utilization" /\ ret # <<>>
     /\ call.primary = Fail) =>
        IF call.pressure THEN ret[1] = Pct(90)
        ELSE ret[1] = None /\ ~ret[2]

\* C24: a duration <int>[s|m|h|d] means n, 60n, 3600n, 86400n seconds, and
\* the cooldown checks of the trigger path and of the recovery path block for
\* exactly that many seconds after the mark, for every unit of the grammar.
C24_DurationsFollowTheGrammar ==
    /\ (call.fn = "RuleEngine._parse_duration" /\ ret # <<>>) =>
          ret[1] = PeriodSeconds(call.duration)
    /\ (call.fn \in {"RuleEngine.is_in_cooldown after", "Controller.check_cooldown after",
                     "RecoveryManager.check_cooldown after"} /\ ret # <<>>) =>
          (ret[1] <=> call.gap < PeriodSeconds(call.period))

\* C26: round trip through the JSON mirror: for every rule r that load_rule
\* produces, load_rule_from_file(r.name) after save_rule(r) returns a rule
\* equal to r in every field.
C26_MirrorRoundTrip ==
    (call.fn = "RuleEngine.save_rule, load_rule_from_file" /\ ret # <<>>) =>
        /\ ret[2] = <<ret[1]>>
        /\ \A field \in DOMAIN ret[1] : ret[2][1][field] = ret[1][field]

\* a document without `enabled` and without conditionLogic, with a description,
\* has been loaded, saved and read back
C26_Witness ==
    /\ call.fn = "RuleEngine.save_rule, load_rule_from_file"
    /\ "conditionLogic" \notin DOMAIN call.rule_data
    /\ "description" \in DOMAIN call.rule_data
    /\ "enabled" \notin DOMAIN call.rule_data
    /\ ret # <<>>
    /\ ret[1].enabled /\ ret[1].conditionLogic = "AND"
    /\ ret[1].metadata = [description |-> "Test rule", priority |-> 100]
    /\ ret[2] = <<ret[1]>>

\* the closed sets of the rule specification
ValidCondition(c) ==
    /\ c.metric \in MetricKeys
    /\ c.operator \in Operators \cup ScriptOperators
ValidSpec(r) ==
    /\ \A i \in DOMAIN r.conditions : ValidCondition(r.conditions[i])
    /\ r.cooldownPeriod.unit \in {"s", "m", "h", "d"}

\* C25: a rule whose spec is invalid (operator or metric outside the closed
\* set, malformed duration) is refused at ingest: it is not in the mirror, its
\* status is phase Invalid with lastError, and the next tick does not fire it.
C25_InvalidRulesAreRefused ==
    /\ (call.fn = "RuleEngine.load_rule, evaluate_all_rules" /\ ret # <<>>
        /\ ~ValidSpec(call.rule_data)) =>
          /\ call.rule_data.name \notin DOMAIN ret[1]
          /\ ret[2].phase = "Invalid" /\ ret[2].lastError # ""
          /\ call.rule_data.name \notin DOMAIN ret[3]
    /\ (call.fn = "Controller.handle_rule_event, evaluate_all_rules" /\ ret # <<>>
        /\ ~ValidSpec(call.rule_object)) =>
          /\ call.rule_object.name \notin DOMAIN ret[1]
          /\ ret[2].phase = "Invalid" /\ ret[2].lastError # ""
          /\ call.rule_object.name \notin DOMAIN ret[3]

\* C27: when an action of a fire fails on some node, the status patched at the
\* end of the fire carries the failure in lastError (it is not what a fire
\* without failure leaves there); a fire in which no action failed leaves no
\* error in lastError.
C27_FailuresReachLastError ==
    (call.fn = "RuleEngine.execute_actions, status" /\ ret # <<>>) =>
        /\ ret[2].status[RA].lastError = ""
        /\ (\E i \in DOMAIN call.fault : call.fault[i] = "failed") =>
              /\ ret[1].status[RA].lastError # ""
              /\ ret[1].status[RA].lastError # ret[2].status[RA].lastError

\* C28: a failure while handling one rule in a tick (unreadable mirror,
\* exception while listing nodes, executing actions, writing the cooldown or
\* patching status) does not abort the tick: every other mirrored rule is still
\* evaluated in the same pass - here the other rule, whose conditions hold on
\* its nodes, has its batch executed - in the library and in the script.
C28_RuleFailureDoesNotAbortTheTick ==
    (call.fn \in {"RuleEngine.evaluate_all_rules", "Controller.evaluate_all_rules"}
     /\ ret # <<>>) =>
        \A r \in RuleNames : r # call.failure.rule => r \in DOMAIN ret[1].log

\* C29: a fire of rule R changes only nodes of its trigger batch: a node outside
\* the batch, and so a node that matches the selector but whose conditions are
\* not satisfied in this tick or whose cooldown entry is younger than the rule's
\* cooldownPeriod, is left as it was and has no pod evicted by this fire.
FireInCooldown(n) ==
    /\ call.entries[n] # None
    /\ call.t - call.entries[n] < PeriodSeconds(call.rule_data.cooldownPeriod)
FireSatisfied(n) ==
    IF call.fn = "Controller.evaluate_rule"
    THEN Controller_combine(call.rule_data.conditions, call.rule_data.conditionLogic,
                            call.mets[n])
    ELSE RuleEngine_evaluate_rule_conditions(call.rule_data.conditions,
                                             call.rule_data.conditionLogic, call.mets[n])
FireLeaves(n) == ret[1].nodes[n] = nodes[n] /\ n \notin ret[1].evicted
C29_FireChangesOnlyItsBatch ==
    (call.fn \in {"RuleEngine.evaluate_rule, execute_actions", "Controller.evaluate_rule"}
        /\ ret # <<>>) =>
        \A n \in NodeNames :
            (\/ n \notin Range(ret[1].batch)
             \/ ~FireSatisfied(n)
             \/ FireInCooldown(n)) => FireLeaves(n)

\* C30: the cooldown check and the cooldown mark of one (rule, node) are atomic
\* with respect to each other: of two evaluations of the same rule in progress
\* at the same time, at most one executes the rule's actions on a given node
\* within one cooldown period.
C30_CheckAndMarkAreAtomic ==
    call.fn = "overlapping evaluate_rule" =>
        \A n \in NodeNames :
            LET t1 == call.runs[1].acted[n]
                t2 == call.runs[2].acted[n]
                period == PeriodSeconds(rules_dir[RA].cooldownPeriod)
            IN (t1 # None /\ t2 # None) => (t1 - t2 >= period \/ t2 - t1 >= period)

\* C31: node mutations are optimistic read-merge-patch updates: when two
\* mutations of the same node object interleave, the final node object contains
\* the effect of both (it is what the two mutations give one after the other,
\* in one of the two orders).
C31_NoUpdateIsLost ==
    (call.fn = "interleaved mutations" /\ \A p \in Mutators : call.ops[p].pc = "done") =>
        LET m1 == call.ops[1].mutation
            m2 == call.ops[2].mutation
        IN nodes[W1] \in
                {KubernetesClient_call(KubernetesClient_call(call.before, m1), m2),
                 KubernetesClient_call(KubernetesClient_call(call.before, m2), m1)}

\* C32: writes to the on-disk mirror are atomic for concurrent readers: a read
\* of a rule mirror or of a cooldown entry while the file is being written
\* observes the complete old content or the complete new content.
C32_ReadersSeeOldOrNew ==
    call.fn = "file read while written" => call.read \in {call.old, call.new}

\* C33: within one evaluation every condition on a given metric is judged
\* against the same value of that metric: the result of an evaluation is the
\* result the conditions have on one of the answers the sources gave during it.
C33_OneValuePerMetric ==
    (ret # <<>> /\ call.fn \in
        {"RuleEngine.evaluate_rule_conditions, one query per condition",
         "Controller.evaluate_node_for_rule, one query per condition"}) =>
        \E i \in DOMAIN call.answers :
            ret[1] = IF call.fn = "RuleEngine.evaluate_rule_conditions, one query per condition"
                     THEN RuleEngine_evaluate_rule_conditions(
                            call.conditions, call.condition_logic, call.answers[i])
                     ELSE Controller_combine(
                            call.conditions, call.condition_logic, call.answers[i])

\* C34: within one action of a fire, a failure on one node of the batch does
\* not stop the action from being applied to the remaining nodes: every node of
\* the batch whose own platform call succeeds ends as the action makes it.
C34_NodeFailureDoesNotStopTheAction ==
    (ret # <<>> /\ call.fn \in {"RuleEngine._execute_action on a batch",
                               "Controller.execute_action on a batch"}) =>
        \A n \in Range(call.triggered_nodes) :
            call.node_fault[n] = "ok" =>
                ret[1].nodes[n] =
                    IF call.fn = "RuleEngine._execute_action on a batch"
                    THEN RuleEngine_apply_action(nodes, call.action, <<n>>)[n]
                    ELSE Controller_apply_action(nodes, call.action, <<n>>)[n]

\* C35: cooldown entries of distinct (rule, node, phase) triples are
\* independent: marking one triple changes the cooldown check of no other
\* triple, for all rule and node names.
C35_TriplesAreIndependent ==
    (ret # <<>> /\ call.fn = "cooldown of two triples" /\ call.marked # call.checked) =>
        ret[2] = ret[1]

\* C36: removing rule R (the watch delivers Deleted, or Added / Modified with
\* enabled=false) leaves every other rule untouched: the mirror file and the
\* trigger cooldown entries of every rule different from R are unchanged.
RemovedBy(R) ==
    lastEvent'[R] \in {"Deleted", "disabled"} /\ lastEvent'[R] # lastEvent[R]
UntouchedBy(R) ==
    /\ (R \in DOMAIN rules_dir') = (R \in DOMAIN rules_dir)
    /\ R \in DOMAIN rules_dir => rules_dir'[R] = rules_dir[R]
    /\ \A n \in NodeNames :
          CooldownEntry(cooldown_dir', R, n) = CooldownEntry(cooldown_dir, R, n)
C36_RemovalLeavesOtherRules ==
    [][\A R \in RuleNames : RemovedBy(R) => \A other \in RuleNames \ {R} : UntouchedBy(other)]_vars

\* C37: for every interleaving of a watch event that disables or deletes rule R
\* with a trigger tick that has already read R's mirror: once both have
\* finished, no cooldown entry of R remains on disk and R's status is not
\* "Active" with triggered nodes.
C37_RemovedRuleIsNotResurrected ==
    (/\ call.fn = "overlapping evaluate_rule"
     /\ lastEvent[RA] \in {"Deleted", "disabled"}
     /\ \A p \in Runs : call.runs[p].pc = "idle") =>
        /\ \A n \in NodeNames : CooldownEntry(cooldown_dir, RA, n) = None
        /\ ~(status[RA].status = "Active" /\ status[RA].triggeredNodes # <<>>)

\* C38: recovery actions of rule R run on node N only if R's own trigger
\* actions ran on N earlier and no recovery of (R, N) has completed since: a
\* node that never fired for R is never recovered by R, and after a completed
\* recovery R's recovery actions do not run on N again until R fires again.
RecoveredIn(log, n) ==
    /\ <<call.recovering.name, n>> \in DOMAIN log
    /\ log[<<call.recovering.name, n>>].attempted # <<>>
FiredOn(n) ==
    /\ call.recovering.name \in DOMAIN ret[1]
    /\ n \in Range(ret[1][call.recovering.name].nodes)
C38_RecoveryFollowsItsTrigger ==
    (ret # <<>> /\ call.fn = "Controller.evaluate_rule, RecoveryManager.check_rule_recovery") =>
        \A n \in NodeNames :
            /\ RecoveredIn(ret[2], n) => FiredOn(n)
            /\ RecoveredIn(ret[3], n) => (FiredOn(n) /\ ~RecoveredIn(ret[2], n))

\* C39: recovery is live: if rule R (enabled, with recovery conditions and
\* recovery actions) has fired on node N with whatever taint key or label its
\* actions declare, and from some point on R's recovery conditions hold on N
\* continuously, then under fair scheduling of the recovery ticks R's recovery
\* actions eventually run on N and N eventually leaves R.status.triggeredNodes.
LiveFired(n) == fireTimes[<<RA, n>>] # None
LiveCool(n) == metrics[n] = EnvCool
LiveRecovered(n) ==
    /\ fireTimes[<<RA, n, "recovery">>] # None
    /\ fireTimes[<<RA, n, "recovery">>] >= fireTimes[<<RA, n>>]
    /\ n \notin Range(status[RA].triggeredNodes)
C39_RecoveryIsLive ==
    \A n \in NodeNames : <>[](LiveFired(n) /\ LiveCool(n)) => <>LiveRecovered(n)

\* C40: in every state reached by trigger ticks, recovery ticks and watch
\* events, R.status.triggeredNodes lists every node on which R's trigger
\* actions have run and for which no recovery of R has completed since: no
\* step takes a listed node off the list of a rule object that still exists
\* (a later fire of R on other nodes, the re-registration of R on a Modified
\* event) unless a recovery of R on that node completes in the step.
StillListed(R, n) == status[R].exists /\ n \in Range(status[R].triggeredNodes)
RecoveryCompleted(R, n) ==
    /\ <<R, n>> \in DOMAIN recoveryLog
    /\ recoveryLog[<<R, n>>].marked
C40_TriggeredNodesAreKept ==
    [][\A R \in RuleNames, n \in NodeNames :
          (StillListed(R, n) /\ status'[R].exists /\ ~RecoveryCompleted(R, n)')
              => n \in Range(status'[R].triggeredNodes)]_vars
====
